---- MODULE Spec2Model ----
(***************************************************************************)
(* CascadeGuard: the call graph and its path enumeration (package graph),  *)
(* the path metrics, the single-file analyzer and its command line         *)
(* (package main), the rules (package rules), the SARIF and Mermaid        *)
(* renderers (package output) and the topology parser (package parser).    *)
(*                                                                         *)
(* Each package is a state machine of its own; the program counter of a    *)
(* package that is not the one under analysis is "off".                    *)
(***************************************************************************)
EXTENDS Integers, Sequences, FiniteSets, TLC

VARIABLES
    adj,        \* CallGraph.adj: map[string][]Edge
    pc,         \* package graph: "off" | "build" | "dfs" | "done"
    root,       \* the argument of the running AllPathsFrom call
    stack,      \* the activation records of CallGraph.dfs, innermost last
    visited,    \* the visited map of AllPathsFrom
    result,     \* *result of AllPathsFrom: [][]Edge
    buildErr,   \* the error a construction has returned, "none" if none
    prev,       \* <<what the call before returned>> when the running or last
                \* AllPathsFrom call repeats it on the same root, <<>> otherwise
    Edges,      \* Graph.Edges
    Adj,        \* Graph.Adj
    apc,        \* package main: "off" | "new" | "ready" | "run"
    f,          \* the findings of the running Analyze call
    todo,       \* the keys of Graph.Adj the range loop of amplification has not yet produced
    gstack,     \* the activation records of Graph.dfs, innermost last
    rootsUsed,  \* the nodes amplification has started a traversal from, in order
    results,    \* the findings each completed Analyze call returned, in call order
    inputs,     \* the edge list of the Graph each completed Analyze call ran on
    mpc,        \* path metrics: "off" | "in"
    mpath,      \* the path handed to the metric functions
    mfactor,    \* <<what RetryAmplificationFactor returned>>, <<>> before the call
    mlatency,   \* <<what WorstCaseLatency returned>>, <<>> before the call
    mproduct,   \* <<the product RetryAmplificationRule.Check computed>>, <<>> before
    rpc,        \* package rules: "off" | "new" | "ready"
    medges,     \* mockGraph.edges
    madj,       \* mockGraph.adj
    calls,      \* the Check calls made, in call order: rule, the graph's edges, result
    opc,        \* package output: "off" | "sarif" | "mermaid" | "done"
    violations, \* the violations handed to the renderer
    ograph,     \* CallGraph.Edges handed to RenderMermaid
    wfails,     \* the io.Writer: the number of the Write call that fails, 0 for none
    written,    \* what the writer has taken
    rerr,       \* the error the renderer returned: "nil" | "err"
    ppc,        \* package parser: "off" | "in" | "done"
    data,       \* what the io.Reader of ParseTopology yields
    topo,       \* the *RawTopology ParseTopology returned, <<>> for nil
    perr,       \* the error ParseTopology returned, <<>> for nil
    cpc,        \* func main: "off" | "start" | "analyze" | "exited"
    argv,       \* os.Args[1:] and the file behind the argument
    exitCode    \* the exit code of the process, <<>> while it runs

vars == <<adj, pc, root, stack, visited, result, buildErr, prev, Edges, Adj, apc, f, todo,
          gstack, rootsUsed, results, inputs, mpc, mpath, mfactor, mlatency, mproduct,
          rpc, medges, madj, calls, opc, violations, ograph, wfails, written, rerr,
          ppc, data, topo, perr, cpc, argv, exitCode>>

graphVars == <<adj, pc, root, stack, visited, result, buildErr, prev>>
mainVars == <<Edges, Adj, apc, f, todo, gstack, rootsUsed, results, inputs>>
metricVars == <<mpc, mpath, mfactor, mlatency, mproduct>>
ruleVars == <<rpc, medges, madj, calls>>
outputVars == <<opc, violations, ograph, wfails, written, rerr>>
parserVars == <<ppc, data, topo, perr>>
cliVars == <<cpc, argv, exitCode>>

----------------------------------------------------------------------------
(* Bounds of the model *)

MaxEdges == 3       \* AddEdge calls on one CallGraph
MaxBuild == 2       \* AddEdge calls when malformed edges are among the inputs
MaxCallEdges == 2   \* length of the edge list handed to NewGraph
MaxRerunEdges == 3  \* the same, when the topology is analysed more than once
MaxRuns == 2        \* Analyze calls on one Graph
MaxPathLen == 3     \* length of a path handed to the metric functions
WordBits == 16      \* width of int and time.Duration, scaled down from 64
MaxRuleEdges == 2   \* length of the edge list the edge-local rules are run on
MaxPathEdges == 2   \* length of the edge list the path rules are run on

Nodes == {"A", "B", "C", "D"}      \* the endpoints of the edges of a CallGraph
Names == Nodes \cup {"Z"}          \* "Z" is never an endpoint of an edge
Services == {"A", "B", "C"}        \* the endpoints of the edges of a Graph

----------------------------------------------------------------------------
(* Go values *)

\* A Go map: a function on the keys present; reading an absent key gives the
\* zero value of the element type.
EmptyMap == [k \in {} |-> 0]
MapGet(m, k, zero) == IF k \in DOMAIN m THEN m[k] ELSE zero
MapPut(m, k, v) == [x \in (DOMAIN m) \cup {k} |-> IF x = k THEN v ELSE m[x]]

\* Sequences over S of length at most n
BoundedSeq(S, n) == UNION {[1..k -> S] : k \in 0..n}

\* Two's complement wrap-around of a machine integer
Modulus == 2 ^ WordBits
Wrap(x) == ((x + Modulus \div 2) % Modulus) - Modulus \div 2
InRange(x) == x >= -(Modulus \div 2) /\ x < Modulus \div 2

----------------------------------------------------------------------------
(* package graph: CallGraph *)

\* The edges AddEdge is called with. Enumeration reads From and To only.
GraphEdges == [From : Nodes, To : Nodes, Timeout : {1}, MaxRetries : {1}]

\* Edges as a caller may hand them over, malformed ones included.
AnyEdges == [From : {"", "A"}, To : {"", "A"}, Timeout : {-1, 0, 1}, MaxRetries : {-1, 0, 1}]

OutEdges(node) == MapGet(adj, node, <<>>)

RECURSIVE SumLen(_, _)
SumLen(m, keys) ==
    IF keys = {} THEN 0
    ELSE LET k == CHOOSE x \in keys : TRUE IN Len(m[k]) + SumLen(m, keys \ {k})

NumEdges == SumLen(adj, DOMAIN adj)

\* The edge put in front of the list
AddEdgeInFront(e) ==
    /\ pc = "build"
    /\ adj' = MapPut(adj, e.From, <<e>> \o MapGet(adj, e.From, <<>>))
    /\ UNCHANGED <<pc, root, stack, visited, result, buildErr, prev>>
    /\ UNCHANGED <<mainVars, metricVars, ruleVars, outputVars, parserVars, cliVars>>

\* g.adj[e.From] = append(g.adj[e.From], e)
AddEdge(e) ==
    /\ pc = "build"
    /\ adj' = MapPut(adj, e.From, Append(MapGet(adj, e.From, <<>>), e))
    /\ UNCHANGED <<pc, root, stack, visited, result, buildErr, prev>>
    /\ UNCHANGED <<mainVars, metricVars, ruleVars, outputVars, parserVars, cliVars>>

\* One activation of dfs(node, visited, path, result); i is the position in
\* outEdges the range loop is at.
Frame(node, path) == [node |-> node, path |-> path, i |-> 1]

Top == stack[Len(stack)]
Pop == SubSeq(stack, 1, Len(stack) - 1)
Advance == [stack EXCEPT ![Len(stack)].i = @ + 1]

\* visited[node] = true, on entry to dfs
Enter(vis, node) == MapPut(vis, node, TRUE)
\* A mark that is never removed
LeaveKeepsMark(vis, node) == vis

\* defer func() { visited[node] = false }()
Leave(vis, node) == MapPut(vis, node, FALSE)

IsVisited(node) == MapGet(visited, node, FALSE)

\* AllPathsFrom with the root left unmarked
AllPathsFromRootUnmarked(r) ==
    /\ pc \in {"build", "done"}
    /\ pc' = "dfs"
    /\ root' = r
    /\ result' = <<>>
    /\ visited' = EmptyMap
    /\ stack' = <<Frame(r, <<>>)>>
    /\ prev' = IF pc = "done" /\ r = root THEN <<result>> ELSE <<>>
    /\ UNCHANGED <<adj, buildErr>>
    /\ UNCHANGED <<mainVars, metricVars, ruleVars, outputVars, parserVars, cliVars>>

\* AllPathsFrom(root), up to and including the entry of dfs(root, visited, nil, &result)
AllPathsFrom(r) ==
    /\ pc \in {"build", "done"}
    /\ pc' = "dfs"
    /\ root' = r
    /\ result' = <<>>
    /\ visited' = Enter(EmptyMap, r)
    /\ stack' = <<Frame(r, <<>>)>>
    /\ prev' = IF pc = "done" /\ r = root THEN <<result>> ELSE <<>>
    /\ UNCHANGED <<adj, buildErr>>
    /\ UNCHANGED <<mainVars, metricVars, ruleVars, outputVars, parserVars, cliVars>>

\* A leaf that records its path whatever its length
DfsLeafRecordsEmpty ==
    /\ pc = "dfs" /\ stack /= <<>>
    /\ Len(OutEdges(Top.node)) = 0
    /\ result' = Append(result, Top.path)
    /\ visited' = Leave(visited, Top.node)
    /\ stack' = Pop
    /\ UNCHANGED <<adj, pc, root, buildErr, prev>>
    /\ UNCHANGED <<mainVars, metricVars, ruleVars, outputVars, parserVars, cliVars>>

\* len(outEdges) == 0: record the path if it is non-empty, and return
DfsLeaf ==
    /\ pc = "dfs" /\ stack /= <<>>
    /\ Len(OutEdges(Top.node)) = 0
    /\ result' = IF Len(Top.path) > 0 THEN Append(result, Top.path) ELSE result
    /\ visited' = Leave(visited, Top.node)
    /\ stack' = Pop
    /\ UNCHANGED <<adj, pc, root, buildErr, prev>>
    /\ UNCHANGED <<mainVars, metricVars, ruleVars, outputVars, parserVars, cliVars>>

\* A marked target skipped without recording the path
DfsBackEdgeDropped ==
    /\ pc = "dfs" /\ stack /= <<>>
    /\ Top.i <= Len(OutEdges(Top.node))
    /\ IsVisited(OutEdges(Top.node)[Top.i].To)
    /\ stack' = Advance
    /\ UNCHANGED <<adj, pc, root, visited, result, buildErr, prev>>
    /\ UNCHANGED <<mainVars, metricVars, ruleVars, outputVars, parserVars, cliVars>>

\* The range loop meets an edge whose target is marked: record newPath, continue
DfsBackEdge ==
    /\ pc = "dfs" /\ stack /= <<>>
    /\ Top.i <= Len(OutEdges(Top.node))
    /\ LET e == OutEdges(Top.node)[Top.i]
           newPath == Append(Top.path, e)
       IN /\ IsVisited(e.To)
          /\ result' = Append(result, newPath)
          /\ stack' = Advance
    /\ UNCHANGED <<adj, pc, root, visited, buildErr, prev>>
    /\ UNCHANGED <<mainVars, metricVars, ruleVars, outputVars, parserVars, cliVars>>

\* A recursion that does not look at the mark of the target
DfsDescendUnchecked ==
    /\ pc = "dfs" /\ stack /= <<>>
    /\ Top.i <= Len(OutEdges(Top.node))
    /\ LET e == OutEdges(Top.node)[Top.i]
           newPath == Append(Top.path, e)
       IN /\ stack' = Append(Advance, Frame(e.To, newPath))
          /\ visited' = Enter(visited, e.To)
    /\ UNCHANGED <<adj, pc, root, result, buildErr, prev>>
    /\ UNCHANGED <<mainVars, metricVars, ruleVars, outputVars, parserVars, cliVars>>

\* The range loop meets an edge whose target is not marked: g.dfs(e.To, visited, newPath, result),
\* up to and including visited[e.To] = true
DfsDescend ==
    /\ pc = "dfs" /\ stack /= <<>>
    /\ Top.i <= Len(OutEdges(Top.node))
    /\ LET e == OutEdges(Top.node)[Top.i]
           newPath == Append(Top.path, e)
       IN /\ ~IsVisited(e.To)
          /\ stack' = Append(Advance, Frame(e.To, newPath))
          /\ visited' = Enter(visited, e.To)
    /\ UNCHANGED <<adj, pc, root, result, buildErr, prev>>
    /\ UNCHANGED <<mainVars, metricVars, ruleVars, outputVars, parserVars, cliVars>>

\* A return that leaves the node marked
DfsReturnKeepsMark ==
    /\ pc = "dfs" /\ stack /= <<>>
    /\ Len(OutEdges(Top.node)) > 0
    /\ Top.i > Len(OutEdges(Top.node))
    /\ stack' = Pop
    /\ UNCHANGED <<adj, pc, root, visited, result, buildErr, prev>>
    /\ UNCHANGED <<mainVars, metricVars, ruleVars, outputVars, parserVars, cliVars>>

\* The range loop is over: the deferred unmarking runs and dfs returns
DfsReturn ==
    /\ pc = "dfs" /\ stack /= <<>>
    /\ Len(OutEdges(Top.node)) > 0
    /\ Top.i > Len(OutEdges(Top.node))
    /\ visited' = Leave(visited, Top.node)
    /\ stack' = Pop
    /\ UNCHANGED <<adj, pc, root, result, buildErr, prev>>
    /\ UNCHANGED <<mainVars, metricVars, ruleVars, outputVars, parserVars, cliVars>>

\* return result
AllPathsReturn ==
    /\ pc = "dfs" /\ stack = <<>>
    /\ pc' = "done"
    /\ UNCHANGED <<adj, root, stack, visited, result, buildErr, prev>>
    /\ UNCHANGED <<mainVars, metricVars, ruleVars, outputVars, parserVars, cliVars>>

DfsStep == DfsLeaf \/ DfsBackEdge \/ DfsDescend \/ DfsReturn \/ AllPathsReturn

----------------------------------------------------------------------------
(* package main: Graph *)

AmpThreshold == 10      \* if af > 10
MaxPathNodes == 10      \* if len(np) < 10

\* The edge lists NewGraph is called with. The traversal reads Source, Target
\* and Retries; the other fields are read by edgeRules only.
CallEdges == [Source : Services, Target : Services, Timeout : {1}, Retries : {0, 3},
              CircuitBreaker : {TRUE}, Method : {"GET"}, BackoffJitter : {TRUE}]

\* The same with one retry count: the traversal's control flow does not read Retries.
AmpEdges == [Source : Services, Target : Services, Timeout : {1}, Retries : {3},
               CircuitBreaker : {TRUE}, Method : {"GET"}, BackoffJitter : {TRUE}]

\* Edge lists as a caller may hand them over, malformed ones included.
AnyCallEdges == [Source : {"", "A"}, Target : {"", "A"}, Timeout : {-1, 1}, Retries : {-1, 3},
                 CircuitBreaker : {TRUE}, Method : {"GET"}, BackoffJitter : {TRUE}]

Finding(rule, severity, message, path) ==
    [Rule |-> rule, Severity |-> severity, Message |-> message, Path |-> path]

\* for _, e := range edges { adj[e.Source] = append(adj[e.Source], e) }
RECURSIVE BuildAdj(_, _, _)
BuildAdj(edges, k, m) ==
    IF k > Len(edges) THEN m
    ELSE BuildAdj(edges, k + 1,
                  MapPut(m, edges[k].Source, Append(MapGet(m, edges[k].Source, <<>>), edges[k])))

NewGraph(edges) ==
    /\ apc \in {"new", "ready"}
    /\ apc' = "ready"
    /\ Edges' = edges
    /\ Adj' = BuildAdj(edges, 1, EmptyMap)
    /\ UNCHANGED <<f, todo, gstack, rootsUsed, results, inputs>>
    /\ UNCHANGED <<graphVars, metricVars, ruleVars, outputVars, parserVars, cliVars>>

AdjOf(node) == MapGet(Adj, node, <<>>)

\* A missing method taken as not idempotent
nonIdemOrMissing == {"POST", "PATCH", "DELETE", ""}

nonIdem == {"POST", "PATCH", "DELETE"}

\* The inner loop of edgeRules: for _, d := range g.Adj[e.Target]
RECURSIVE Inversions(_, _, _)
Inversions(e, ds, k) ==
    IF k > Len(ds) THEN <<>>
    ELSE (IF e.Timeout > 0 /\ ds[k].Timeout > e.Timeout
          THEN <<Finding("timeout-inversion", "error",
                         <<e.Source, e.Target, e.Timeout, e.Target, ds[k].Target, ds[k].Timeout>>,
                         <<e.Source, e.Target, ds[k].Target>>)>>
          ELSE <<>>)
         \o Inversions(e, ds, k + 1)

\* The body of the outer loop of edgeRules, for one edge
EdgeFindings(e) ==
    LET p == <<e.Source, e.Target>> IN
    Inversions(e, AdjOf(e.Target), 1)
    \o (IF e.Retries > 0 /\ ~e.CircuitBreaker
        THEN <<Finding("retry-without-cb", "warning", <<e.Source, e.Target, e.Retries>>, p)>>
        ELSE <<>>)
    \o (IF e.Retries > 0 /\ e.Method \in nonIdem
        THEN <<Finding("non-idempotent-retry", "error",
                       <<e.Source, e.Target, e.Method, e.Retries>>, p)>>
        ELSE <<>>)
    \o (IF e.Retries > 0 /\ ~e.BackoffJitter
        THEN <<Finding("backoff-no-jitter", "warning", <<e.Source, e.Target>>, p)>>
        ELSE <<>>)

RECURSIVE edgeRulesFrom(_)
edgeRulesFrom(k) ==
    IF k > Len(Edges) THEN <<>> ELSE EdgeFindings(Edges[k]) \o edgeRulesFrom(k + 1)

edgeRules == edgeRulesFrom(1)

\* incoming[e.Target] = true, for every edge
incoming == {Edges[k].Target : k \in 1..Len(Edges)}

\* Analyze, up to the range loop of amplification: the edge rules have run,
\* and no key of g.Adj has been produced yet
Analyze ==
    /\ apc = "ready"
    /\ apc' = "run"
    /\ f' = edgeRules
    /\ todo' = DOMAIN Adj
    /\ gstack' = <<>>
    /\ rootsUsed' = <<>>
    /\ UNCHANGED <<Edges, Adj, results, inputs>>
    /\ UNCHANGED <<graphVars, metricVars, ruleVars, outputVars, parserVars, cliVars>>

\* One activation of Graph.dfs(node, path, factor, f)
GFrame(node, path, factor) == [node |-> node, path |-> path, factor |-> factor, i |-> 1]

GTop == gstack[Len(gstack)]
GPop == SubSeq(gstack, 1, Len(gstack) - 1)
GAdvance == [gstack EXCEPT ![Len(gstack)].i = @ + 1]

\* for src := range g.Adj: the order in which a map's keys are produced is
\* unspecified; any key not yet produced may come next.
\* incoming[src]: the key is passed over
AmpSkip ==
    /\ apc = "run" /\ gstack = <<>>
    /\ \E src \in todo :
        /\ src \in incoming
        /\ todo' = todo \ {src}
    /\ UNCHANGED <<Edges, Adj, apc, f, gstack, rootsUsed, results, inputs>>
    /\ UNCHANGED <<graphVars, metricVars, ruleVars, outputVars, parserVars, cliVars>>

\* !incoming[src]: g.dfs(src, []string{src}, 1, &f)
AmpRoot ==
    /\ apc = "run" /\ gstack = <<>>
    /\ \E src \in todo :
        /\ src \notin incoming
        /\ todo' = todo \ {src}
        /\ gstack' = <<GFrame(src, <<src>>, 1)>>
        /\ rootsUsed' = Append(rootsUsed, src)
    /\ UNCHANGED <<Edges, Adj, apc, f, results, inputs>>
    /\ UNCHANGED <<graphVars, metricVars, ruleVars, outputVars, parserVars, cliVars>>

\* The finding dfs appends when af > 10
\* A warning above 5 as well, as the rule of package rules gives
AmpFindingsWithWarning(af, np) ==
    IF af > AmpThreshold
    THEN <<Finding("retry-amplification", "error", <<af>>, np)>>
    ELSE IF af > 5
    THEN <<Finding("retry-amplification", "warning", <<af>>, np)>>
    ELSE <<>>

AmpFindings(af, np) ==
    IF af > AmpThreshold
    THEN <<Finding("retry-amplification", "error", <<af>>, np)>>
    ELSE <<>>

\* One iteration of the range loop of dfs with len(np) < 10: recurse
GDfsDescend ==
    /\ apc = "run" /\ gstack /= <<>>
    /\ GTop.i <= Len(AdjOf(GTop.node))
    /\ LET e == AdjOf(GTop.node)[GTop.i]
           af == GTop.factor * (1 + e.Retries)
           np == Append(GTop.path, e.Target)
       IN /\ Len(np) < MaxPathNodes
          /\ f' = f \o AmpFindings(af, np)
          /\ gstack' = Append(GAdvance, GFrame(e.Target, np, af))
    /\ UNCHANGED <<Edges, Adj, apc, todo, rootsUsed, results, inputs>>
    /\ UNCHANGED <<graphVars, metricVars, ruleVars, outputVars, parserVars, cliVars>>

\* At the cap the prefix is not looked at
GDfsCappedSilent ==
    /\ apc = "run" /\ gstack /= <<>>
    /\ GTop.i <= Len(AdjOf(GTop.node))
    /\ Len(GTop.path) + 1 >= MaxPathNodes
    /\ gstack' = GAdvance
    /\ UNCHANGED <<Edges, Adj, apc, f, todo, rootsUsed, results, inputs>>
    /\ UNCHANGED <<graphVars, metricVars, ruleVars, outputVars, parserVars, cliVars>>

\* One iteration of the range loop of dfs with len(np) >= 10: no recursion
GDfsCapped ==
    /\ apc = "run" /\ gstack /= <<>>
    /\ GTop.i <= Len(AdjOf(GTop.node))
    /\ LET e == AdjOf(GTop.node)[GTop.i]
           af == GTop.factor * (1 + e.Retries)
           np == Append(GTop.path, e.Target)
       IN /\ ~(Len(np) < MaxPathNodes)
          /\ f' = f \o AmpFindings(af, np)
          /\ gstack' = GAdvance
    /\ UNCHANGED <<Edges, Adj, apc, todo, rootsUsed, results, inputs>>
    /\ UNCHANGED <<graphVars, metricVars, ruleVars, outputVars, parserVars, cliVars>>

\* The range loop of dfs is over
GDfsReturn ==
    /\ apc = "run" /\ gstack /= <<>>
    /\ GTop.i > Len(AdjOf(GTop.node))
    /\ gstack' = GPop
    /\ UNCHANGED <<Edges, Adj, apc, f, todo, rootsUsed, results, inputs>>
    /\ UNCHANGED <<graphVars, metricVars, ruleVars, outputVars, parserVars, cliVars>>

\* The range loop of amplification is over: Analyze returns f
AnalyzeReturn ==
    /\ apc = "run" /\ gstack = <<>> /\ todo = {}
    /\ apc' = "ready"
    /\ results' = Append(results, f)
    /\ inputs' = Append(inputs, Edges)
    /\ UNCHANGED <<Edges, Adj, f, todo, gstack, rootsUsed>>
    /\ UNCHANGED <<graphVars, metricVars, ruleVars, outputVars, parserVars, cliVars>>

AnalyzeStep == AmpSkip \/ AmpRoot \/ GDfsDescend \/ GDfsCapped \/ GDfsReturn \/ AnalyzeReturn

----------------------------------------------------------------------------
(* package graph: path metrics; RetryAmplificationRule.Check's own product *)

\* The paths the metric functions are called with. They read Timeout and
\* MaxRetries only; no function of the package rejects a negative Timeout.
MetricEdges == [From : {"A"}, To : {"B"}, Timeout : {-1, 0, 1, 30000}, MaxRetries : {0, 2, 199}]

\* for _, e := range path { factor *= 1 + e.MaxRetries }
RECURSIVE FactorLoop(_, _, _)
FactorLoop(path, k, factor) ==
    IF k > Len(path) THEN factor
    ELSE FactorLoop(path, k + 1, Wrap(factor * Wrap(1 + path[k].MaxRetries)))

\* A product of the retry counts, without the initial attempt
RetryAmplificationFactorOfRetries(path) ==
    IF Len(path) = 0 THEN 1
    ELSE FactorLoop([k \in 1..Len(path) |-> [path[k] EXCEPT !.MaxRetries = @ - 1]], 1, 1)

RetryAmplificationFactor(path) ==
    IF Len(path) = 0 THEN 1 ELSE FactorLoop(path, 1, 1)

\* for _, e := range path { total += e.Timeout * time.Duration(1+e.MaxRetries) }
RECURSIVE LatencyLoop(_, _, _)
LatencyLoop(path, k, total) ==
    IF k > Len(path) THEN total
    ELSE LatencyLoop(path, k + 1,
                     Wrap(total + Wrap(path[k].Timeout * Wrap(1 + path[k].MaxRetries))))

\* A sum of the timeouts, each counted once
WorstCaseLatencyOneAttempt(path) ==
    LatencyLoop([k \in 1..Len(path) |-> [path[k] EXCEPT !.MaxRetries = 0]], 1, 0)

WorstCaseLatency(path) == LatencyLoop(path, 1, 0)

\* product := 1; for _, e := range path { product *= (1 + e.MaxRetries) }
RECURSIVE CheckProductLoop(_, _, _)
CheckProductLoop(path, k, product) ==
    IF k > Len(path) THEN product
    ELSE CheckProductLoop(path, k + 1, Wrap(product * Wrap(1 + path[k].MaxRetries)))

CheckProduct(path) == CheckProductLoop(path, 1, 1)

CallRetryAmplificationFactor ==
    /\ mpc = "in" /\ mfactor = <<>>
    /\ mfactor' = <<RetryAmplificationFactor(mpath)>>
    /\ UNCHANGED <<mpc, mpath, mlatency, mproduct>>
    /\ UNCHANGED <<graphVars, mainVars, ruleVars, outputVars, parserVars, cliVars>>

CallWorstCaseLatency ==
    /\ mpc = "in" /\ mlatency = <<>>
    /\ mlatency' = <<WorstCaseLatency(mpath)>>
    /\ UNCHANGED <<mpc, mpath, mfactor, mproduct>>
    /\ UNCHANGED <<graphVars, mainVars, ruleVars, outputVars, parserVars, cliVars>>

CallCheckProduct ==
    /\ mpc = "in" /\ mproduct = <<>>
    /\ mproduct' = <<CheckProduct(mpath)>>
    /\ UNCHANGED <<mpc, mpath, mfactor, mlatency>>
    /\ UNCHANGED <<graphVars, mainVars, ruleVars, outputVars, parserVars, cliVars>>

----------------------------------------------------------------------------
(* package rules: the six rules, and the CallGraph the rule tests hand them *)

Violation(rule, severity, path, message, hint) ==
    [Rule |-> rule, Severity |-> severity, Path |-> path, Message |-> message,
     SourceHint |-> hint]

\* newMockGraph(edges...)
newMockGraph(edges) ==
    /\ rpc \in {"new", "ready"}
    /\ rpc' = "ready"
    /\ medges' = edges
    /\ madj' = BuildAdj(edges, 1, EmptyMap)
    /\ UNCHANGED calls
    /\ UNCHANGED <<graphVars, mainVars, metricVars, outputVars, parserVars, cliVars>>

\* Only the first edge of the graph
FirstEdgeOnly == SubSeq(medges, 1, IF medges = <<>> THEN 0 ELSE 1)

\* mockGraph.AllEdges
AllEdges == medges

\* mockGraph.OutEdges
OutEdgesOf(node) == MapGet(madj, node, <<>>)

\* The order of Go's strings on the service names
StringLess(a, b) ==
    \E i, j \in 1..3 : i < j /\ <<"A", "B", "C">>[i] = a /\ <<"A", "B", "C">>[j] = b

\* sort.Strings, on a slice that holds every element of S once
RECURSIVE SortStrings(_)
SortStrings(S) ==
    IF S = {} THEN <<>>
    ELSE LET m == CHOOSE x \in S : \A y \in S : ~StringLess(y, x)
         IN <<m>> \o SortStrings(S \ {m})

\* mockGraph.dfs: the paths one call appends to *paths. The call leaves
\* visited as it found it (every mark it sets it deletes again).
RECURSIVE mockDfs(_, _, _)
RECURSIVE mockDfsLoop(_, _, _, _)
mockDfs(node, current, vis) ==
    IF Len(OutEdgesOf(node)) = 0
    THEN (IF Len(current) > 0 THEN <<current>> ELSE <<>>)
    ELSE mockDfsLoop(OutEdgesOf(node), current, vis, 1)

\* for _, e := range out
mockDfsLoop(out, current, vis, k) ==
    IF k > Len(out) THEN <<>>
    ELSE (IF out[k].Target \in vis THEN <<>>
          ELSE mockDfs(out[k].Target, Append(current, out[k]), vis \cup {out[k].Target}))
         \o mockDfsLoop(out, current, vis, k + 1)

\* The roots of mockGraph.Paths, sorted
mockRoots ==
    LET targets == {medges[k].Target : k \in 1..Len(medges)}
        sources == {medges[k].Source : k \in 1..Len(medges)}
    IN SortStrings(IF sources \ targets = {} THEN sources ELSE sources \ targets)

\* for _, root := range roots
RECURSIVE PathsFrom(_, _)
PathsFrom(roots, k) ==
    IF k > Len(roots) THEN <<>>
    ELSE mockDfs(roots[k], <<>>, {roots[k]}) \o PathsFrom(roots, k + 1)

\* mockGraph.Paths
Paths == PathsFrom(mockRoots, 1)

pathNodes(edges) ==
    IF Len(edges) = 0 THEN <<>>
    ELSE <<edges[1].Source>> \o [k \in 1..Len(edges) |-> edges[k].Target]

\* A []Violation built by a loop: what each iteration appends, in order
RECURSIVE Appended(_, _)
Appended(each, k) ==
    IF k > Len(each) THEN <<>> ELSE each[k] \o Appended(each, k + 1)

\* TimeoutInversionRule.Check
InversionsOfOrEqual(e) ==
    LET One(d) ==
            IF e.Timeout > 0 /\ d.Timeout >= e.Timeout
            THEN <<Violation("timeout-inversion", "error", <<e.Source, e.Target, d.Target>>,
                             <<e.Source, e.Target, e.Timeout, e.Target, d.Target, d.Timeout>>,
                             <<"edge", e.Source, e.Target>>)>>
            ELSE <<>>
    IN Appended([i \in DOMAIN OutEdgesOf(e.Target) |-> One(OutEdgesOf(e.Target)[i])], 1)

InversionsOf(e) ==
    LET One(d) ==
            IF e.Timeout > 0 /\ d.Timeout > e.Timeout
            THEN <<Violation("timeout-inversion", "error", <<e.Source, e.Target, d.Target>>,
                             <<e.Source, e.Target, e.Timeout, e.Target, d.Target, d.Timeout>>,
                             <<"edge", e.Source, e.Target>>)>>
            ELSE <<>>
    IN Appended([i \in DOMAIN OutEdgesOf(e.Target) |-> One(OutEdgesOf(e.Target)[i])], 1)

TimeoutInversionCheck == Appended([i \in DOMAIN AllEdges |-> InversionsOf(AllEdges[i])], 1)

\* RetryAmplificationRule.Check
DefaultErrorThreshold == 10
DefaultWarningThreshold == 5

\* The two severities exchanged
AmplificationOfSwapped(errT, warnT, path) ==
    LET product == CheckProduct(path) IN
    IF product > errT
    THEN <<Violation("retry-amplification", "warning", pathNodes(path), <<product, errT>>, "")>>
    ELSE IF product > warnT
    THEN <<Violation("retry-amplification", "error", pathNodes(path), <<product, warnT>>, "")>>
    ELSE <<>>

AmplificationOf(errT, warnT, path) ==
    LET product == CheckProduct(path) IN
    IF product > errT
    THEN <<Violation("retry-amplification", "error", pathNodes(path), <<product, errT>>, "")>>
    ELSE IF product > warnT
    THEN <<Violation("retry-amplification", "warning", pathNodes(path), <<product, warnT>>, "")>>
    ELSE <<>>

\* The thresholds taken as they are, a zero included
RetryAmplificationCheckNoDefaults(r) ==
    LET One(path) == AmplificationOf(r.ErrorThreshold, r.WarningThreshold, path)
    IN Appended([i \in DOMAIN Paths |-> One(Paths[i])], 1)

RetryAmplificationCheck(r) ==
    LET errT == IF r.ErrorThreshold = 0 THEN DefaultErrorThreshold ELSE r.ErrorThreshold
        warnT == IF r.WarningThreshold = 0 THEN DefaultWarningThreshold ELSE r.WarningThreshold
        One(path) == AmplificationOf(errT, warnT, path)
    IN Appended([i \in DOMAIN Paths |-> One(Paths[i])], 1)

\* NonIdempotentRetryRule.Check
NonIdempotentRetryCheck ==
    LET One(e) ==
            IF ~e.Idempotent /\ e.MaxRetries > 0
            THEN <<Violation("non-idempotent-retry", "error", <<e.Source, e.Target>>,
                             <<e.Source, e.Target, e.MaxRetries>>,
                             <<"edge", e.Source, e.Target>>)>>
            ELSE <<>>
    IN Appended([i \in DOMAIN AllEdges |-> One(AllEdges[i])], 1)

\* Every edge without a circuit breaker flagged, retried or not
EveryEdgeWithoutCircuitBreaker ==
    LET One(e) ==
            IF ~e.HasCircuitBreaker
            THEN <<Violation("retry-without-cb", "warning", <<e.Source, e.Target>>,
                             <<e.Source, e.Target, e.MaxRetries>>,
                             <<"edge", e.Source, e.Target>>)>>
            ELSE <<>>
    IN Appended([i \in DOMAIN AllEdges |-> One(AllEdges[i])], 1)

\* RetryWithoutCircuitBreakerRule.Check
RetryWithoutCircuitBreakerCheck ==
    LET One(e) ==
            IF e.MaxRetries > 0 /\ ~e.HasCircuitBreaker
            THEN <<Violation("retry-without-cb", "warning", <<e.Source, e.Target>>,
                             <<e.Source, e.Target, e.MaxRetries>>,
                             <<"edge", e.Source, e.Target>>)>>
            ELSE <<>>
    IN Appended([i \in DOMAIN AllEdges |-> One(AllEdges[i])], 1)

\* BackoffWithoutJitterRule.Check
BackoffWithoutJitterCheck ==
    LET One(e) ==
            IF e.HasBackoff /\ ~e.Jitter
            THEN <<Violation("backoff-no-jitter", "warning", <<e.Source, e.Target>>,
                             <<e.Source, e.Target>>, <<"edge", e.Source, e.Target>>)>>
            ELSE <<>>
    IN Appended([i \in DOMAIN AllEdges |-> One(AllEdges[i])], 1)

\* for _, e := range path { worstCase += e.Timeout * time.Duration(1+e.MaxRetries) }
RECURSIVE WorstCaseLoop(_, _, _)
WorstCaseLoop(path, k, worstCase) ==
    IF k > Len(path) THEN worstCase
    ELSE WorstCaseLoop(path, k + 1,
                       Wrap(worstCase + Wrap(path[k].Timeout * Wrap(1 + path[k].MaxRetries))))

\* EndToEndTimeoutExceedRule.Check
EndToEndTimeoutExceedCheck(r) ==
    LET One(path) ==
            LET worstCase == WorstCaseLoop(path, 1, 0) IN
            IF worstCase > r.EntryTimeout
            THEN <<Violation("e2e-timeout-exceed", "error", pathNodes(path),
                             <<worstCase, r.EntryTimeout>>, "")>>
            ELSE <<>>
    IN IF r.EntryTimeout = 0 THEN <<>> ELSE Appended([i \in DOMAIN Paths |-> One(Paths[i])], 1)

\* The rule values: the type, and the fields of the types that have any
TimeoutInversionRule == [Type |-> "TimeoutInversionRule"]
NonIdempotentRetryRule == [Type |-> "NonIdempotentRetryRule"]
RetryWithoutCircuitBreakerRule == [Type |-> "RetryWithoutCircuitBreakerRule"]
BackoffWithoutJitterRule == [Type |-> "BackoffWithoutJitterRule"]
RetryAmplificationRule(errT, warnT) ==
    [Type |-> "RetryAmplificationRule", ErrorThreshold |-> errT, WarningThreshold |-> warnT]
EndToEndTimeoutExceedRule(entry) ==
    [Type |-> "EndToEndTimeoutExceedRule", EntryTimeout |-> entry]

\* rule.Check(g), dispatched on the type of the rule
CheckOf(r) ==
    CASE r.Type = "TimeoutInversionRule" -> TimeoutInversionCheck
      [] r.Type = "RetryAmplificationRule" -> RetryAmplificationCheck(r)
      [] r.Type = "NonIdempotentRetryRule" -> NonIdempotentRetryCheck
      [] r.Type = "RetryWithoutCircuitBreakerRule" -> RetryWithoutCircuitBreakerCheck
      [] r.Type = "BackoffWithoutJitterRule" -> BackoffWithoutJitterCheck
      [] r.Type = "EndToEndTimeoutExceedRule" -> EndToEndTimeoutExceedCheck(r)

\* A Check that uses up the edges of the graph
CheckConsumesEdges(r) ==
    /\ rpc = "ready"
    /\ calls' = Append(calls, [rule |-> r, edges |-> medges, out |-> CheckOf(r)])
    /\ medges' = <<>> /\ madj' = EmptyMap
    /\ UNCHANGED rpc
    /\ UNCHANGED <<graphVars, mainVars, metricVars, outputVars, parserVars, cliVars>>

Check(r) ==
    /\ rpc = "ready"
    /\ calls' = Append(calls, [rule |-> r, edges |-> medges, out |-> CheckOf(r)])
    /\ UNCHANGED <<rpc, medges, madj>>
    /\ UNCHANGED <<graphVars, mainVars, metricVars, outputVars, parserVars, cliVars>>

----------------------------------------------------------------------------
(* The edges the rules are run on *)

RuleNodes == {"A", "B"}

\* Edges that differ in endpoints and timeout, for the package rules ...
TimeoutRuleEdges ==
    [Source : RuleNodes, Target : RuleNodes, Timeout : {0, 1, 2}, MaxRetries : {0},
     Idempotent : {TRUE}, HasCircuitBreaker : {TRUE}, HasBackoff : {FALSE}, Jitter : {FALSE}]

\* ... in retries, idempotency and circuit breaker ...
RetryRuleEdges ==
    [Source : {"A"}, Target : {"B"}, Timeout : {1}, MaxRetries : {0, 2},
     Idempotent : BOOLEAN, HasCircuitBreaker : BOOLEAN, HasBackoff : {FALSE}, Jitter : {FALSE}]

\* ... and in retries, backoff and jitter
BackoffRuleEdges ==
    [Source : {"A"}, Target : {"B"}, Timeout : {1}, MaxRetries : {0, 2},
     Idempotent : {TRUE}, HasCircuitBreaker : {TRUE}, HasBackoff : BOOLEAN, Jitter : BOOLEAN]

RuleEdges == TimeoutRuleEdges \cup RetryRuleEdges \cup BackoffRuleEdges

\* The same for package main: endpoints and timeout ...
TimeoutCallEdges ==
    {e \in [Source : RuleNodes, Target : RuleNodes, Timeout : {0, 1, 2}, Retries : {0},
            CircuitBreaker : {TRUE}, Method : {"GET"}, BackoffJitter : {TRUE}] :
        e.Source /= e.Target}

\* ... retries, circuit breaker and method, "" being a missing method ...
RetryCallEdges ==
    [Source : {"A"}, Target : {"B"}, Timeout : {1}, Retries : {0, 3},
     CircuitBreaker : BOOLEAN, Method : {"GET", "POST", ""}, BackoffJitter : {TRUE}]

MethodCallEdges ==
    [Source : {"A"}, Target : {"B"}, Timeout : {1}, Retries : {3},
     CircuitBreaker : {TRUE}, Method : {"PATCH", "DELETE", "PUT"}, BackoffJitter : {TRUE}]

\* ... retries and jitter ...
JitterCallEdges ==
    [Source : {"A"}, Target : {"B"}, Timeout : {1}, Retries : {0, 3},
     CircuitBreaker : {TRUE}, Method : {"GET"}, BackoffJitter : {FALSE}]

\* ... and retried edges that chain, through B to C or round B
ChainCallEdges ==
    [Source : {"A", "B"}, Target : {"B", "C"}, Timeout : {1}, Retries : {1, 3},
     CircuitBreaker : {TRUE}, Method : {"GET"}, BackoffJitter : {TRUE}]

RuleCallEdges ==
    TimeoutCallEdges \cup RetryCallEdges \cup MethodCallEdges \cup JitterCallEdges
        \cup ChainCallEdges

\* Edges that differ in endpoints and retries: a path amplifies by 1, 10, 100
AmpRuleEdges ==
    [Source : Services, Target : Services, Timeout : {1}, MaxRetries : {0, 9},
     Idempotent : {TRUE}, HasCircuitBreaker : {TRUE}, HasBackoff : {FALSE}, Jitter : {FALSE}]

\* Thresholds left unset, below and above the defaults
AmplificationRules ==
    {RetryAmplificationRule(errT, warnT) : errT \in {0, 3, 20}, warnT \in {0, 50}}

\* Edges that differ in endpoints, timeout and retries; two attempts of the
\* long timeout are beyond the range of time.Duration
LatencyRuleEdges ==
    [Source : Services, Target : Services, Timeout : {1, 30000}, MaxRetries : {0, 1},
     Idempotent : {TRUE}, HasCircuitBreaker : {TRUE}, HasBackoff : {FALSE}, Jitter : {FALSE}]

\* The entry timeout left at zero, and set
EndToEndRules == {EndToEndTimeoutExceedRule(entry) : entry \in {0, 1, 3}}

EdgeLocalRules ==
    {TimeoutInversionRule, NonIdempotentRetryRule, RetryWithoutCircuitBreakerRule,
     BackoffWithoutJitterRule}

----------------------------------------------------------------------------
(* Specifications *)

GraphOff ==
    /\ adj = EmptyMap /\ root = "Z" /\ stack = <<>> /\ visited = EmptyMap
    /\ result = <<>> /\ buildErr = "none" /\ prev = <<>>

MainOff ==
    /\ Edges = <<>> /\ Adj = EmptyMap /\ f = <<>> /\ todo = {} /\ gstack = <<>>
    /\ rootsUsed = <<>> /\ results = <<>> /\ inputs = <<>>

MetricsOff ==
    /\ mpc = "off" /\ mpath = <<>> /\ mfactor = <<>> /\ mlatency = <<>> /\ mproduct = <<>>

RulesOff == rpc = "off" /\ medges = <<>> /\ madj = EmptyMap /\ calls = <<>>

OutputOff ==
    /\ opc = "off" /\ violations = <<>> /\ ograph = <<>> /\ wfails = 0
    /\ written = <<>> /\ rerr = "nil"

ParserOff == ppc = "off" /\ data = <<>> /\ topo = <<>> /\ perr = <<>>

CliOff == cpc = "off" /\ argv = <<>> /\ exitCode = <<>>

OthersOff == OutputOff /\ ParserOff /\ CliOff

\* NewCallGraph()
InitCallGraph == pc = "build" /\ GraphOff /\ apc = "off" /\ MainOff /\ MetricsOff /\ RulesOff
                 /\ OthersOff

\* Before NewGraph
InitAnalyzer == pc = "off" /\ GraphOff /\ apc = "new" /\ MainOff /\ MetricsOff /\ RulesOff
                /\ OthersOff

\* Before newMockGraph
InitRules == pc = "off" /\ GraphOff /\ apc = "off" /\ MainOff /\ MetricsOff
             /\ rpc = "new" /\ medges = <<>> /\ madj = EmptyMap /\ calls = <<>>
             /\ OthersOff

InitMetrics ==
    /\ pc = "off" /\ GraphOff /\ apc = "off" /\ MainOff /\ RulesOff
    /\ mpc = "in" /\ mpath \in BoundedSeq(MetricEdges, MaxPathLen)
    /\ mfactor = <<>> /\ mlatency = <<>> /\ mproduct = <<>>
    /\ OthersOff

NextCallGraph ==
    \/ \E e \in GraphEdges : NumEdges < MaxEdges /\ AddEdge(e)
    \/ \E r \in Names : AllPathsFrom(r)
    \/ DfsStep

NextAnalyzer ==
    \/ apc = "new" /\ \E edges \in BoundedSeq(CallEdges, MaxCallEdges) : NewGraph(edges)
    \/ results = <<>> /\ Analyze
    \/ AnalyzeStep

\* The same topology analysed more than once
NextRerun ==
    \/ apc = "new" /\ \E edges \in BoundedSeq(AmpEdges, MaxRerunEdges) : NewGraph(edges)
    \/ Len(results) < MaxRuns /\ Analyze
    \/ AnalyzeStep

NextBuild ==
    \/ \E e \in AnyEdges : NumEdges < MaxBuild /\ AddEdge(e)
    \/ apc = "new" /\ \E edges \in BoundedSeq(AnyCallEdges, MaxBuild) : NewGraph(edges)

NextMetrics == CallRetryAmplificationFactor \/ CallWorstCaseLatency \/ CallCheckProduct

SpecCallGraph == InitCallGraph /\ [][NextCallGraph]_vars

SpecAnalyzer == InitAnalyzer /\ [][NextAnalyzer]_vars

SpecRerun == InitAnalyzer /\ [][NextRerun]_vars

SpecBuild == (InitCallGraph \/ InitAnalyzer) /\ [][NextBuild]_vars

SpecMetrics == InitMetrics /\ [][NextMetrics]_vars

\* The edge-local rules, as rule values of package rules run one at a time on a
\* graph, and as the one pass of Graph.Analyze
NextEdgeRules ==
    \/ rpc = "new" /\ \E edges \in BoundedSeq(RuleEdges, MaxRuleEdges) : newMockGraph(edges)
    \/ \E r \in EdgeLocalRules : calls = <<>> /\ Check(r)
    \/ apc = "new" /\ \E edges \in BoundedSeq(RuleCallEdges, MaxRuleEdges) : NewGraph(edges)
    \/ results = <<>> /\ Analyze
    \/ AnalyzeStep

SpecEdgeRules == (InitRules \/ InitAnalyzer) /\ [][NextEdgeRules]_vars

\* The amplification rule, run with up to two rule values on one graph
NextAmplification ==
    \/ rpc = "new" /\ \E edges \in BoundedSeq(AmpRuleEdges, MaxPathEdges) : newMockGraph(edges)
    \/ \E r \in AmplificationRules : Len(calls) < 2 /\ Check(r)

SpecAmplification == InitRules /\ [][NextAmplification]_vars

\* The end-to-end rule, run once on a graph
NextEndToEnd ==
    \/ rpc = "new" /\ \E edges \in BoundedSeq(LatencyRuleEdges, MaxPathEdges) : newMockGraph(edges)
    \/ \E r \in EndToEndRules : calls = <<>> /\ Check(r)

SpecEndToEnd == InitRules /\ [][NextEndToEnd]_vars

\* Both packages, with the program's steps taken as long as one is possible:
\* a call, once made, runs on its one thread until it returns.
NextTraversal ==
    \/ apc = "new" /\ \E edges \in BoundedSeq(AmpEdges, MaxCallEdges) : NewGraph(edges)
    \/ results = <<>> /\ Analyze
    \/ AnalyzeStep

FairSpec ==
    /\ InitCallGraph \/ InitAnalyzer
    /\ [][NextCallGraph \/ NextTraversal]_vars
    /\ WF_vars(DfsStep)
    /\ WF_vars(AnalyzeStep)

----------------------------------------------------------------------------
(* Vocabulary of the properties *)

E(a, b) == [From |-> a, To |-> b, Timeout |-> 1, MaxRetries |-> 1]

\* The nodes of the activations of CallGraph.dfs that have not returned
StackNodes == {stack[k].node : k \in 1..Len(stack)}

\* A path read as a node sequence: the first edge's From, then every edge's To
NodeSeq(p) == IF p = <<>> THEN <<>> ELSE <<p[1].From>> \o [k \in 1..Len(p) |-> p[k].To]

Occurrences(ns, v) == Cardinality({k \in 1..Len(ns) : ns[k] = v})

\* The graph holds exactly the edges A->B, B->C, C->A
CycleGraph ==
    /\ NumEdges = 3
    /\ OutEdges("A") = <<E("A", "B")>>
    /\ OutEdges("B") = <<E("B", "C")>>
    /\ OutEdges("C") = <<E("C", "A")>>

\* The graph holds exactly the edge A->A
SelfLoopGraph == NumEdges = 1 /\ OutEdges("A") = <<E("A", "A")>>

\* The range loop of the innermost dfs is about to take an edge whose target
\* is the node of an activation that has not returned
BackEdgePending ==
    /\ pc = "dfs" /\ stack /= <<>>
    /\ Top.i <= Len(OutEdges(Top.node))
    /\ OutEdges(Top.node)[Top.i].To \in StackNodes

----------------------------------------------------------------------------
(* C1: whenever the traversal meets an edge whose target is on the current
   exploration stack, its next step appends the current path extended with
   that edge to the result and starts no activation for the edge; the cycle
   A->B->C->A enumerated from A gives exactly the one path [A->B, B->C, C->A],
   and a lone self-loop A->A gives exactly [[A->A]]. *)
C1_BackEdgeRecorded ==
    /\ [][BackEdgePending =>
            /\ result' = Append(result, Append(Top.path, OutEdges(Top.node)[Top.i]))
            /\ Len(stack') = Len(stack)
            /\ stack'[Len(stack)].i = Top.i + 1]_vars
    /\ [](pc = "done" /\ root = "A" /\ CycleGraph
            => result = << <<E("A", "B"), E("B", "C"), E("C", "A")>> >>)
    /\ [](pc = "done" /\ root = "A" /\ SelfLoopGraph => result = << <<E("A", "A")>> >>)

C1_Witness ==
    /\ pc = "done" /\ root = "A" /\ CycleGraph
    /\ Len(result) = 1 /\ Len(result[1]) = 3 /\ result[1][3] = E("C", "A")

----------------------------------------------------------------------------
(* C2: in every path of the result, read as a node sequence, no node repeats
   among the positions before the last; a node that occurs more than once is
   the target of the final edge and occurs exactly twice. *)
C2_CycleTruncation ==
    \A j \in 1..Len(result) :
        LET ns == NodeSeq(result[j])
            n == Len(ns)
        IN /\ \A a, b \in 1..(n - 1) : a /= b => ns[a] /= ns[b]
           /\ \A k \in 1..n : Occurrences(ns, ns[k]) >= 2 =>
                                /\ ns[k] = ns[n]
                                /\ Occurrences(ns, ns[k]) = 2

\* A returned path of two or more edges whose last edge closes a cycle
C2_Witness ==
    /\ pc = "done"
    /\ \E j \in 1..Len(result) :
        /\ Len(result[j]) >= 2
        /\ Occurrences(NodeSeq(result[j]), result[j][Len(result[j])].To) = 2

----------------------------------------------------------------------------
(* C3: enumeration and analysis terminate on every edge list, self-loops,
   multi-edges and overlapping cycles included: the recursion of
   CallGraph.dfs is never deeper than the number of node names, that of
   Graph.dfs never deeper than the path cap allows, every AllPathsFrom call
   returns and every Analyze call returns. *)
C3_Termination ==
    /\ [](Len(stack) <= Cardinality(Names))
    /\ [](Len(gstack) <= MaxPathNodes - 1)
    /\ (pc = "dfs") ~> (pc = "done")
    /\ (apc = "run") ~> (apc = "ready" /\ results /= <<>>)

\* Analyze has returned after a traversal that went round a cycle until the cap
C3_Witness ==
    /\ apc = "ready" /\ results /= <<>>
    /\ \E k \in 1..Len(results[1]) : Len(results[1][k].Path) = MaxPathNodes

----------------------------------------------------------------------------
(* C4: when AllPathsFrom(root) has returned, the result holds every maximal
   simple edge sequence from root exactly once: as many copies of each path
   as there are sequences of edge positions that start at root, are chained,
   repeat no node before the last edge, end at a node without out-edges or at
   a node already on the sequence, and carry that path's edges. *)
Positions == UNION {{<<n, k>> : k \in 1..Len(adj[n])} : n \in DOMAIN adj}

EdgeAt(pos) == adj[pos[1]][pos[2]]

EdgesOf(s) == [k \in 1..Len(s) |-> EdgeAt(s[k])]

IsMaximalSimple(r, s) ==
    LET p == EdgesOf(s)
        n == Len(p)
        ns == NodeSeq(p)
    IN /\ n > 0
       /\ p[1].From = r
       /\ \A k \in 1..(n - 1) : p[k].To = p[k + 1].From
       /\ \A a, b \in 1..n : a /= b => ns[a] /= ns[b]
       /\ \/ Len(OutEdges(p[n].To)) = 0
          \/ \E a \in 1..n : ns[a] = p[n].To

MaximalSimple(r) ==
    {s \in BoundedSeq(Positions, Cardinality(Nodes)) : IsMaximalSimple(r, s)}

CopiesIn(seq, v) == Cardinality({k \in 1..Len(seq) : seq[k] = v})

C4_Complete ==
    pc = "done" =>
        LET want == MaximalSimple(root) IN
        /\ \A s \in want :
             CopiesIn(result, EdgesOf(s)) = Cardinality({t \in want : EdgesOf(t) = EdgesOf(s)})
        /\ \A j \in 1..Len(result) : \E s \in want : EdgesOf(s) = result[j]

\* Two different returned paths end at the same node, which has no out-edges
C4_Witness ==
    /\ pc = "done"
    /\ \E i, j \in 1..Len(result) :
        /\ result[i] /= result[j]
        /\ result[i][Len(result[i])].To = result[j][Len(result[j])].To
        /\ Len(OutEdges(result[i][Len(result[i])].To)) = 0

----------------------------------------------------------------------------
(* C5: every path of the result is non-empty, starts at root, is chained, and
   ends at a node without out-edges or at a node already on the path; when
   root has no out-edges AllPathsFrom returns no path. *)
C5_PathShape ==
    /\ \A j \in 1..Len(result) :
        LET p == result[j]
            n == Len(p)
        IN /\ n > 0
           /\ p[1].From = root
           /\ \A k \in 1..(n - 1) : p[k].To = p[k + 1].From
           /\ \/ Len(OutEdges(p[n].To)) = 0
              \/ \E a \in 1..n : NodeSeq(p)[a] = p[n].To
    /\ (pc = "done" /\ Len(OutEdges(root)) = 0) => result = <<>>

\* AllPathsFrom has returned for a root without out-edges in a graph that has edges
C5_Witness == pc = "done" /\ Len(OutEdges(root)) = 0 /\ NumEdges > 0 /\ result = <<>>

----------------------------------------------------------------------------
(* C6: every Analyze call on the same Graph returns the same sequence of
   findings, also when the topology has two or more roots. *)
C6_Deterministic ==
    \A i, j \in 1..Len(results) : results[i] = results[j]

----------------------------------------------------------------------------
(* C7: a graph is never constructed from a malformed edge (empty source or
   target, negative timeout, negative retry count): the construction returns
   an InvalidTopology error instead. *)
WellFormed(e) == e.From /= "" /\ e.To /= "" /\ e.Timeout >= 0 /\ e.MaxRetries >= 0

WellFormedCall(e) == e.Source /= "" /\ e.Target /= "" /\ e.Timeout >= 0 /\ e.Retries >= 0

C7_InvalidTopologyRejected ==
    \/ buildErr /= "none"
    \/ /\ \A n \in DOMAIN adj : \A k \in 1..Len(adj[n]) : WellFormed(adj[n][k])
       /\ \A k \in 1..Len(Edges) : WellFormedCall(Edges[k])

----------------------------------------------------------------------------
(* C8: when Analyze has returned, the traversals it ran started from the
   nodes that are a source and never a target, each once; when there is no
   such node they started from every node that has out-edges, in
   lexicographic order of name. *)
NameRank(n) == CHOOSE r \in 1..3 : <<"A", "B", "C">>[r] = n

RECURSIVE SortedNames(_)
SortedNames(S) ==
    IF S = {} THEN <<>>
    ELSE LET m == CHOOSE x \in S : \A y \in S : NameRank(x) <= NameRank(y)
         IN <<m>> \o SortedNames(S \ {m})

Sources == {Edges[k].Source : k \in 1..Len(Edges)}
Targets == {Edges[k].Target : k \in 1..Len(Edges)}
Roots == Sources \ Targets

C8_RootFallback ==
    (apc = "ready" /\ results /= <<>>) =>
        IF Roots /= {}
        THEN /\ {rootsUsed[k] : k \in 1..Len(rootsUsed)} = Roots
             /\ Len(rootsUsed) = Cardinality(Roots)
        ELSE rootsUsed = SortedNames(Sources)

----------------------------------------------------------------------------
(* C9: RetryAmplificationFactor(p) is the product over the edges of p of
   1 + MaxRetries whenever that product is within the range of int, it is 1
   for the empty path, and the product RetryAmplificationRule.Check computes
   for p is the same value. *)
RECURSIVE ProductOver(_, _)
ProductOver(p, S) ==
    IF S = {} THEN 1
    ELSE LET k == CHOOSE x \in S : TRUE
         IN (1 + p[k].MaxRetries) * ProductOver(p, S \ {k})

C9_AmplificationLaw ==
    /\ (mfactor /= <<>> /\ InRange(ProductOver(mpath, DOMAIN mpath)))
          => mfactor[1] = ProductOver(mpath, DOMAIN mpath)
    /\ (mfactor /= <<>> /\ mpath = <<>>) => mfactor[1] = 1
    /\ (mfactor /= <<>> /\ mproduct /= <<>>) => mproduct[1] = mfactor[1]

\* Both products have been computed for a path of three edges with retries
C9_Witness ==
    /\ mfactor = <<27>> /\ mproduct = <<27>>
    /\ Len(mpath) = 3 /\ \A k \in 1..3 : mpath[k].MaxRetries = 2

----------------------------------------------------------------------------
(* C10: WorstCaseLatency(p) is the sum over the edges of p of
   Timeout * (1 + MaxRetries) whenever that sum is within the range of
   time.Duration, and it is 0 for the empty path; an edge with Timeout 0 adds
   nothing whatever its retry count. *)
RECURSIVE SumOver(_, _)
SumOver(p, S) ==
    IF S = {} THEN 0
    ELSE LET k == CHOOSE x \in S : TRUE
         IN p[k].Timeout * (1 + p[k].MaxRetries) + SumOver(p, S \ {k})

NonZeroTimeout(p) == {k \in DOMAIN p : p[k].Timeout /= 0}

C10_LatencyLaw ==
    /\ (mlatency /= <<>> /\ InRange(SumOver(mpath, DOMAIN mpath)))
          => /\ mlatency[1] = SumOver(mpath, DOMAIN mpath)
             /\ mlatency[1] = SumOver(mpath, NonZeroTimeout(mpath))
    /\ (mlatency /= <<>> /\ mpath = <<>>) => mlatency[1] = 0

\* The latency of a path with a retried edge and a zero-timeout edge with retries
C10_Witness ==
    /\ mlatency = <<3>>
    /\ Len(mpath) = 2
    /\ mpath[1].Timeout = 1 /\ mpath[1].MaxRetries = 2
    /\ mpath[2].Timeout = 0 /\ mpath[2].MaxRetries = 199

----------------------------------------------------------------------------
(* C11: WorstCaseLatency adds with saturation: when the true sum of
   Timeout * (1 + MaxRetries) along the path exceeds the maximum duration,
   the result is the maximum duration, never a smaller or negative value. *)
MaxDuration == Modulus \div 2 - 1

C11_Saturating ==
    (mlatency /= <<>> /\ SumOver(mpath, DOMAIN mpath) > MaxDuration)
        => mlatency[1] = MaxDuration

----------------------------------------------------------------------------
(* Vocabulary of the rule properties *)

\* How many elements of a []Violation or []Finding have this rule and path
Emitted(out, rule, path) ==
    Cardinality({k \in 1..Len(out) : out[k].Rule = rule /\ out[k].Path = path})

\* Every element of the rule has this severity
SeverityIs(out, rule, severity) ==
    \A k \in 1..Len(out) : out[k].Rule = rule => out[k].Severity = severity

\* Only this rule has emitted
OnlyRule(out, rule) == \A k \in 1..Len(out) : out[k].Rule = rule

\* The calls of a rule type made on the mock graph
CallsOf(type) == {c \in 1..Len(calls) : calls[c].rule.Type = type}

\* The positions of the edges of a list that satisfy P
EdgesWhere(edges, P(_)) == {k \in 1..Len(edges) : P(edges[k])}

\* The node sequences of up to three nodes
EdgePaths == {<<a, b>> : a, b \in Services}
TriplePaths == {<<a, b, c>> : a, b, c \in Services}

----------------------------------------------------------------------------
(* C12: for every edge e and every out-edge d of e's target, one
   timeout-inversion violation of severity error with path
   [e.source, e.target, d.target] is emitted if and only if e.timeout > 0 and
   d.timeout > e.timeout, by TimeoutInversionRule.Check and by Graph.Analyze:
   the violations with a given path are as many as the pairs (e, d) with that
   path and inverted timeouts. *)
InvertedPairs(edges, path) ==
    {h \in (1..Len(edges)) \X (1..Len(edges)) :
        /\ edges[h[2]].Source = edges[h[1]].Target
        /\ path = <<edges[h[1]].Source, edges[h[1]].Target, edges[h[2]].Target>>
        /\ edges[h[1]].Timeout > 0
        /\ edges[h[2]].Timeout > edges[h[1]].Timeout}

C12_TimeoutInversion ==
    /\ \A c \in CallsOf("TimeoutInversionRule") :
          /\ OnlyRule(calls[c].out, "timeout-inversion")
          /\ SeverityIs(calls[c].out, "timeout-inversion", "error")
          /\ \A path \in TriplePaths :
                Emitted(calls[c].out, "timeout-inversion", path)
                    = Cardinality(InvertedPairs(medges, path))
    /\ \A r \in 1..Len(results) :
          /\ SeverityIs(results[r], "timeout-inversion", "error")
          /\ \A path \in TriplePaths :
                Emitted(results[r], "timeout-inversion", path)
                    = Cardinality(InvertedPairs(Edges, path))

\* The rule has run on A->B (timeout 1), B->A (timeout 2): the pair that starts
\* with A->B is inverted, the pair that starts with B->A is not
C12_Witness ==
    /\ Len(medges) = 2 /\ CallsOf("TimeoutInversionRule") = {1}
    /\ medges[1].Source = "A" /\ medges[1].Target = "B" /\ medges[1].Timeout = 1
    /\ medges[2].Source = "B" /\ medges[2].Target = "A" /\ medges[2].Timeout = 2
    /\ Len(calls[1].out) = 1
    /\ calls[1].out[1].Path = <<"A", "B", "A">>

----------------------------------------------------------------------------
(* C13: for every edge, one non-idempotent-retry violation of severity error
   with path [source, target] is emitted if and only if the edge is retried
   and not idempotent; for Graph.Analyze, not idempotent means that the method
   is POST, PATCH or DELETE, and an edge without a method stays silent. *)
RetriedNonIdempotent(edges, path) ==
    {k \in 1..Len(edges) :
        /\ path = <<edges[k].Source, edges[k].Target>>
        /\ edges[k].MaxRetries > 0
        /\ ~edges[k].Idempotent}

RetriedUnsafeMethod(edges, path) ==
    {k \in 1..Len(edges) :
        /\ path = <<edges[k].Source, edges[k].Target>>
        /\ edges[k].Retries > 0
        /\ edges[k].Method \in {"POST", "PATCH", "DELETE"}}

C13_NonIdempotentRetry ==
    /\ \A c \in CallsOf("NonIdempotentRetryRule") :
          /\ OnlyRule(calls[c].out, "non-idempotent-retry")
          /\ SeverityIs(calls[c].out, "non-idempotent-retry", "error")
          /\ \A path \in EdgePaths :
                Emitted(calls[c].out, "non-idempotent-retry", path)
                    = Cardinality(RetriedNonIdempotent(medges, path))
    /\ \A r \in 1..Len(results) :
          /\ SeverityIs(results[r], "non-idempotent-retry", "error")
          /\ \A path \in EdgePaths :
                Emitted(results[r], "non-idempotent-retry", path)
                    = Cardinality(RetriedUnsafeMethod(Edges, path))

\* Analyze has returned one violation for a retried POST edge followed by a
\* retried edge without a method
C13_Witness ==
    /\ Len(results) = 1 /\ Len(Edges) = 2
    /\ Edges[1].Method = "POST" /\ Edges[1].Retries = 3
    /\ Edges[2].Method = "" /\ Edges[2].Retries = 3
    /\ Emitted(results[1], "non-idempotent-retry", <<"A", "B">>) = 1

----------------------------------------------------------------------------
(* C14: for every edge, one retry-without-cb violation of severity warning
   with path [source, target] is emitted if and only if the edge is retried
   and has no circuit breaker. *)
RetriedWithoutBreaker(edges, path) ==
    {k \in 1..Len(edges) :
        /\ path = <<edges[k].Source, edges[k].Target>>
        /\ edges[k].MaxRetries > 0
        /\ ~edges[k].HasCircuitBreaker}

RetriedCallWithoutBreaker(edges, path) ==
    {k \in 1..Len(edges) :
        /\ path = <<edges[k].Source, edges[k].Target>>
        /\ edges[k].Retries > 0
        /\ ~edges[k].CircuitBreaker}

C14_RetryWithoutCircuitBreaker ==
    /\ \A c \in CallsOf("RetryWithoutCircuitBreakerRule") :
          /\ OnlyRule(calls[c].out, "retry-without-cb")
          /\ SeverityIs(calls[c].out, "retry-without-cb", "warning")
          /\ \A path \in EdgePaths :
                Emitted(calls[c].out, "retry-without-cb", path)
                    = Cardinality(RetriedWithoutBreaker(medges, path))
    /\ \A r \in 1..Len(results) :
          /\ SeverityIs(results[r], "retry-without-cb", "warning")
          /\ \A path \in EdgePaths :
                Emitted(results[r], "retry-without-cb", path)
                    = Cardinality(RetriedCallWithoutBreaker(Edges, path))

\* The rule has run on two edges without a circuit breaker, the first retried
\* and the second not, and has flagged one
C14_Witness ==
    /\ Len(medges) = 2 /\ CallsOf("RetryWithoutCircuitBreakerRule") = {1}
    /\ ~medges[1].HasCircuitBreaker /\ medges[1].MaxRetries = 2
    /\ ~medges[2].HasCircuitBreaker /\ medges[2].MaxRetries = 0
    /\ Len(calls[1].out) = 1

----------------------------------------------------------------------------
(* C15: for every edge, one backoff-no-jitter violation of severity warning
   with path [source, target] is emitted if and only if the edge has backoff
   and has no jitter; an edge with neither backoff nor jitter produces none,
   whatever its retry count. *)
BackoffWithoutJitter(edges, path) ==
    {k \in 1..Len(edges) :
        /\ path = <<edges[k].Source, edges[k].Target>>
        /\ edges[k].HasBackoff
        /\ ~edges[k].Jitter}

\* A CallEdge has no field for a backoff, and the topology file package main
\* reads has no key for one: no edge of a Graph has a backoff
CallHasBackoff(e) == FALSE

CallBackoffWithoutJitter(edges, path) ==
    {k \in 1..Len(edges) :
        /\ path = <<edges[k].Source, edges[k].Target>>
        /\ CallHasBackoff(edges[k])
        /\ ~edges[k].BackoffJitter}

C15_BackoffWithoutJitter ==
    /\ \A c \in CallsOf("BackoffWithoutJitterRule") :
          /\ OnlyRule(calls[c].out, "backoff-no-jitter")
          /\ SeverityIs(calls[c].out, "backoff-no-jitter", "warning")
          /\ \A path \in EdgePaths :
                Emitted(calls[c].out, "backoff-no-jitter", path)
                    = Cardinality(BackoffWithoutJitter(medges, path))
    /\ \A r \in 1..Len(results) :
          /\ SeverityIs(results[r], "backoff-no-jitter", "warning")
          /\ \A path \in EdgePaths :
                Emitted(results[r], "backoff-no-jitter", path)
                    = Cardinality(CallBackoffWithoutJitter(Edges, path))

----------------------------------------------------------------------------
(* C16: RetryAmplificationRule.Check emits, for each path of Paths(), at most
   one retry-amplification violation, with the node sequence of the path:
   of severity error if the factor of the path is greater than the error
   threshold, else of severity warning if it is greater than the warning
   threshold, else none; a threshold left at zero stands for 10 (error) and
   5 (warning). *)
NodesAlong(path) == <<path[1].Source>> \o [k \in 1..Len(path) |-> path[k].Target]

ErrorThresholdOf(r) == IF r.ErrorThreshold = 0 THEN 10 ELSE r.ErrorThreshold
WarningThresholdOf(r) == IF r.WarningThreshold = 0 THEN 5 ELSE r.WarningThreshold

ExpectedSeverity(r, path) ==
    LET factor == ProductOver(path, DOMAIN path) IN
    IF factor > ErrorThresholdOf(r) THEN "error"
    ELSE IF factor > WarningThresholdOf(r) THEN "warning"
    ELSE "none"

C16_AmplificationSeverity ==
    \A c \in CallsOf("RetryAmplificationRule") :
        LET Amplifies(path) == ExpectedSeverity(calls[c].rule, path) /= "none"
            flagged == SelectSeq(Paths, Amplifies)
            out == calls[c].out
        IN /\ Len(out) = Len(flagged)
           /\ \A k \in 1..Len(out) :
                 /\ out[k].Rule = "retry-amplification"
                 /\ out[k].Severity = ExpectedSeverity(calls[c].rule, flagged[k])
                 /\ out[k].Path = NodesAlong(flagged[k])

\* The rule with unset thresholds has run on a graph with two paths and has
\* flagged one, which amplifies by 10, with a warning
C16_Witness ==
    /\ Len(calls) = 1
    /\ calls[1].rule = RetryAmplificationRule(0, 0)
    /\ Len(Paths) = 2
    /\ Len(calls[1].out) = 1
    /\ calls[1].out[1].Severity = "warning"
    /\ calls[1].out[1].Message = <<10, 5>>

----------------------------------------------------------------------------
(* C17: for two RetryAmplificationRule values that differ only in
   ErrorThreshold, E1 < E2, every violation emitted under E2 is for a path
   that has a violation under E1 of a severity at least as high: raising the
   error threshold adds no violation and raises no severity. Stated first for
   thresholds that are set (0 < E1), and then as claimed, for E1 >= 0. *)
SeverityRank(v) == IF v.Severity = "error" THEN 2 ELSE 1

\* out2 holds nothing that out1 does not hold for the same path and factor,
\* with a severity at least as high
NoMoreSevere(out2, out1) ==
    \A k \in 1..Len(out2) : \E j \in 1..Len(out1) :
        /\ out1[j].Path = out2[k].Path
        /\ out1[j].Message[1] = out2[k].Message[1]
        /\ SeverityRank(out1[j]) >= SeverityRank(out2[k])

RaisedPairs(lowest) ==
    {p \in CallsOf("RetryAmplificationRule") \X CallsOf("RetryAmplificationRule") :
        /\ calls[p[1]].rule.WarningThreshold = calls[p[2]].rule.WarningThreshold
        /\ calls[p[1]].rule.ErrorThreshold >= lowest
        /\ calls[p[1]].rule.ErrorThreshold < calls[p[2]].rule.ErrorThreshold}

C17_MonotoneWhenSet ==
    \A p \in RaisedPairs(1) : NoMoreSevere(calls[p[2]].out, calls[p[1]].out)

C17_Monotone ==
    \A p \in RaisedPairs(0) : NoMoreSevere(calls[p[2]].out, calls[p[1]].out)

\* Error thresholds 3 and then 20 on a graph with a path that amplifies by 10:
\* an error under 3, a warning under 20
C17_Witness ==
    /\ Len(calls) = 2
    /\ calls[1].rule = RetryAmplificationRule(3, 0)
    /\ calls[2].rule = RetryAmplificationRule(20, 0)
    /\ \E k \in 1..Len(calls[1].out) : \E j \in 1..Len(calls[2].out) :
          /\ calls[1].out[k].Path = calls[2].out[j].Path
          /\ calls[1].out[k].Severity = "error"
          /\ calls[2].out[j].Severity = "warning"

----------------------------------------------------------------------------
(* C18: EndToEndTimeoutExceedRule.Check emits one e2e-timeout-exceed
   violation of severity error for each path of Paths() whose worst-case
   latency is greater than EntryTimeout and none for the other paths; with
   EntryTimeout zero it emits nothing. The worst-case latency of a path is the
   sum of Timeout * (1 + MaxRetries) along it, at most the maximum duration. *)
WorstCaseOf(path) ==
    IF SumOver(path, DOMAIN path) > MaxDuration THEN MaxDuration
    ELSE SumOver(path, DOMAIN path)

C18_EndToEndTimeout ==
    \A c \in CallsOf("EndToEndTimeoutExceedRule") :
        LET Exceeds(path) == WorstCaseOf(path) > calls[c].rule.EntryTimeout
            flagged == IF calls[c].rule.EntryTimeout = 0 THEN <<>>
                       ELSE SelectSeq(Paths, Exceeds)
            out == calls[c].out
        IN /\ Len(out) = Len(flagged)
           /\ \A k \in 1..Len(out) :
                 /\ out[k].Rule = "e2e-timeout-exceed"
                 /\ out[k].Severity = "error"
                 /\ out[k].Path = NodesAlong(flagged[k])

----------------------------------------------------------------------------
(* C19: the findings Analyze returns are the concatenation of the output of
   each rule, rule after rule: the findings of one rule are contiguous, no
   finding of another rule stands between two of them. *)
Contiguous(out) ==
    \A i, j, k \in 1..Len(out) :
        (i < j /\ j < k /\ out[i].Rule = out[k].Rule) => out[j].Rule = out[i].Rule

C19_RuleOrder == \A r \in 1..Len(results) : Contiguous(results[r])

----------------------------------------------------------------------------
(* C20: Analyze returns no finding for a topology in which every edge has a
   circuit breaker, an idempotent method and jitter, no edge has a larger
   timeout than an edge with a positive timeout that leads to its source, and
   the product of 1 + retries along every path from a root is at most 10.
   A path from a root is any chain of edges that starts at a node with no
   incoming edge, of up to as many nodes as the analysis follows. *)
ProtectedEdges ==
    \A k \in 1..Len(Edges) :
        /\ Edges[k].CircuitBreaker
        /\ Edges[k].Method \notin {"POST", "PATCH", "DELETE"}
        /\ Edges[k].BackoffJitter

NoInversion ==
    \A i, k \in 1..Len(Edges) :
        (Edges[k].Source = Edges[i].Target /\ Edges[i].Timeout > 0)
            => Edges[k].Timeout <= Edges[i].Timeout

\* Every chain of up to n edges that starts at node and continues a chain
\* with product factor has a product of at most 10
RECURSIVE ChainsWithin(_, _, _)
ChainsWithin(node, factor, n) ==
    \A k \in 1..Len(Edges) :
        Edges[k].Source = node =>
            /\ factor * (1 + Edges[k].Retries) <= 10
            /\ n > 1 => ChainsWithin(Edges[k].Target, factor * (1 + Edges[k].Retries), n - 1)

BoundedAmplification ==
    \A src \in Sources \ Targets : ChainsWithin(src, 1, MaxPathNodes - 1)

CleanTopology == ProtectedEdges /\ NoInversion /\ BoundedAmplification

----------------------------------------------------------------------------
(* Rule localness: the same rule run on two graphs *)

\* Two edges between A and B, and one that touches neither
LocalPairs == {<<"A", "B">>, <<"B", "A">>, <<"C", "C">>}

\* An edge from the root D into the cycle of A and B
RootCallEdge ==
    [Source |-> "D", Target |-> "A", Timeout |-> 2, Retries |-> 0, CircuitBreaker |-> TRUE,
     Method |-> "GET", BackoffJitter |-> TRUE]

\* Edges for package rules: a protected edge with a short timeout, and an
\* edge with a long timeout that every single-edge rule flags
LocalRuleEdges ==
    {[Source |-> p[1], Target |-> p[2], Timeout |-> q[1], MaxRetries |-> q[2],
      Idempotent |-> q[3], HasCircuitBreaker |-> q[3], HasBackoff |-> ~q[3],
      Jitter |-> FALSE] :
        p \in LocalPairs, q \in {<<1, 0, TRUE>>, <<2, 2, FALSE>>}}

\* The same for package main
LocalCallEdges ==
    {[Source |-> p[1], Target |-> p[2], Timeout |-> q[1], Retries |-> q[2],
      CircuitBreaker |-> q[3], Method |-> q[4], BackoffJitter |-> q[3]] :
        p \in LocalPairs,
        q \in {<<1, 0, TRUE, "GET">>, <<2, 3, FALSE, "POST">>}}
    \cup {RootCallEdge}

\* edges without its k-th element
RemoveAt(edges, k) == SubSeq(edges, 1, k - 1) \o SubSeq(edges, k + 1, Len(edges))

\* The edge lists that are edges reordered, with one edge removed, or with
\* one edge of S added
Variants(edges, S) ==
    {[i \in 1..Len(edges) |-> edges[pi[i]]] : pi \in Permutations(1..Len(edges))}
        \cup {RemoveAt(edges, k) : k \in 1..Len(edges)}
        \cup {Append(edges, e) : e \in S}

\* One rule is run on a graph, a second graph is built from a variant of the
\* edge list, and the same rule is run on it
NextLocal ==
    \/ rpc = "new" /\ \E edges \in BoundedSeq(LocalRuleEdges, MaxRuleEdges) : newMockGraph(edges)
    \/ /\ rpc = "ready" /\ Len(calls) = 1 /\ calls[1].edges = medges
       /\ \E edges \in Variants(medges, LocalRuleEdges) : newMockGraph(edges)
    \/ \E r \in EdgeLocalRules :
          /\ calls = <<>> \/ (Len(calls) = 1 /\ calls[1].rule = r)
          /\ Check(r)
    \/ apc = "new" /\ \E edges \in BoundedSeq(LocalCallEdges, MaxRuleEdges) : NewGraph(edges)
    \/ /\ apc = "ready" /\ Len(inputs) = 1 /\ inputs[1] = Edges
       /\ \E edges \in Variants(Edges, LocalCallEdges) : NewGraph(edges)
    \/ Len(results) < 2 /\ Analyze
    \/ AnalyzeStep

SpecLocal == (InitRules \/ InitAnalyzer) /\ [][NextLocal]_vars

\* How often x occurs in seq
Count(seq, x) == Cardinality({k \in DOMAIN seq : seq[k] = x})

\* e has an endpoint among the nodes ns
Touches(e, ns) == e.Source \in ns \/ e.Target \in ns

\* Every edge of L1 that touches ns is as often in L2
NeighbourhoodWithin(L1, L2, ns) ==
    \A k \in DOMAIN L1 : Touches(L1[k], ns) => Count(L1, L1[k]) = Count(L2, L1[k])

\* L1 and L2 hold the same edges with an endpoint in ns, as multisets: they
\* differ by order and by edges not adjacent to ns
SameNeighbourhood(L1, L2, ns) ==
    NeighbourhoodWithin(L1, L2, ns) /\ NeighbourhoodWithin(L2, L1, ns)

EdgeRuleIds ==
    {"timeout-inversion", "retry-without-cb", "non-idempotent-retry", "backoff-no-jitter"}

\* Every element of out1 of an edge-local rule about path is as often in out2
AboutWithin(out1, out2, path) ==
    \A k \in DOMAIN out1 :
        (out1[k].Rule \in EdgeRuleIds /\ out1[k].Path = path)
            => Count(out1, out1[k]) = Count(out2, out1[k])

\* out1 and out2 hold the same multiset of edge-local elements about path
SameAbout(out1, out2, path) ==
    AboutWithin(out1, out2, path) /\ AboutWithin(out2, out1, path)

Range(seq) == {seq[k] : k \in DOMAIN seq}

\* The paths the elements of out are about
PathsIn(out) == {out[k].Path : k \in DOMAIN out}

\* C21: rule localness. When an edge-local rule is run on two graphs whose
\* edge lists differ only in order and in edges that touch no node of an edge
\* (path of two nodes) or of an adjacent pair (path of three nodes), the
\* multiset of its violations about that edge or pair is the same on both;
\* for the rules of package rules and for Graph.edgeRules.
C21_Localness ==
    /\ \A c, d \in DOMAIN calls :
          (c < d /\ calls[c].rule = calls[d].rule) =>
              \A path \in PathsIn(calls[c].out) \cup PathsIn(calls[d].out) :
                  SameNeighbourhood(calls[c].edges, calls[d].edges, Range(path))
                      => SameAbout(calls[c].out, calls[d].out, path)
    /\ \A c, d \in DOMAIN results :
          c < d =>
              \A path \in PathsIn(results[c]) \cup PathsIn(results[d]) :
                  SameNeighbourhood(inputs[c], inputs[d], Range(path))
                      => SameAbout(results[c], results[d], path)

\* The non-idempotent-retry rule has been run on the flagged edge A->B and
\* then on the graph with a flagged C->C added behind it: the
\* violation about A->B is in both results, which differ in the one about C->C
C21_Witness ==
    /\ Len(calls) = 2
    /\ calls[1].rule = NonIdempotentRetryRule
    /\ Len(calls[1].edges) = 1 /\ Len(calls[2].edges) = 2
    /\ calls[1].edges[1].Source = "A" /\ calls[1].edges[1].MaxRetries = 2
    /\ calls[2].edges[1] = calls[1].edges[1]
    /\ calls[2].edges[2].Source = "C" /\ calls[2].edges[2].MaxRetries = 2
    /\ Len(calls[1].out) = 1 /\ Len(calls[2].out) = 2
    /\ SameAbout(calls[1].out, calls[2].out, <<"A", "B">>)

\* Graph.Analyze has been run on A->B (timeout 1), B->A (timeout 2) and on
\* the same edges in the other order: both results hold the one inversion
C21_WitnessMain ==
    /\ Len(results) = 2
    /\ Len(inputs[1]) = 2 /\ inputs[1][1].Source = "A" /\ inputs[1][1].Timeout = 1
    /\ inputs[1][2].Timeout = 2
    /\ inputs[2] = <<inputs[1][2], inputs[1][1]>>
    /\ Emitted(results[1], "timeout-inversion", <<"A", "B", "A">>) = 1
    /\ Emitted(results[2], "timeout-inversion", <<"A", "B", "A">>) = 1

----------------------------------------------------------------------------
(* package output: RenderSARIF and RenderMermaid *)

MaxViolations == 2     \* violations handed to a renderer
MaxRenderEdges == 2    \* edges of the CallGraph handed to RenderMermaid

\* A Go string is a sequence of symbols: a symbol is a run of plain ASCII
\* text, or one of the characters encoding/json treats specially: a quote, an
\* HTML character, a byte that is not valid UTF-8 ("xFF"), and the Unicode
\* replacement character ("uFFFD", valid UTF-8)
Text(s) == <<s>>

ValidUTF8(str) == \A k \in DOMAIN str : str[k] /= "xFF"

\* type Violation struct of package output; Path holds service names
OutputViolation(rule, severity, message, path) ==
    [Rule |-> rule, Severity |-> severity, Message |-> message, Path |-> path]

\* Every severity maps to warning unless it is error
mapLevelDefaultWarning(severity) ==
    IF severity = Text("error") THEN Text("error") ELSE Text("warning")

\* func mapLevel
mapLevel(severity) ==
    IF severity = Text("error") THEN Text("error")
    ELSE IF severity = Text("warning") THEN Text("warning")
    ELSE Text("note")

\* results = append(results, sarifResult{...}) for each violation
sarifResults(vs) ==
    [i \in 1..Len(vs) |->
        [RuleID |-> vs[i].Rule, Level |-> mapLevel(vs[i].Severity),
         Message |-> [Text |-> vs[i].Message]]]

\* doc := sarifDocument{...}
sarifDocument(rs) ==
    [Schema |-> Text("https://json.schemastore.org/sarif-2.1.0.json"),
     Version |-> Text("2.1.0"),
     Runs |-> <<[Tool |-> [Driver |-> [Name |-> Text("CascadeGuard")]],
                 Results |-> rs]>>]

\* encoding/json writes a string between quotes: a quote is escaped with a
\* backslash, an HTML character is written as its \u escape, a byte that is
\* not valid UTF-8 as the \u escape of the replacement character, the rest
\* as it is
EncodeSymbol(c) ==
    IF c = "\"" THEN "\\\""
    ELSE IF c = "<" THEN "\\u003c"
    ELSE IF c = "xFF" THEN "\\ufffd"
    ELSE c

EncodeString(str) == [k \in DOMAIN str |-> EncodeSymbol(str[k])]

\* enc.Encode(doc): the document with its keys and every string encoded
Encode(doc) ==
    [schema |-> EncodeString(doc.Schema),
     version |-> EncodeString(doc.Version),
     runs |->
        [r \in DOMAIN doc.Runs |->
            [tool |-> [driver |-> [name |-> EncodeString(doc.Runs[r].Tool.Driver.Name)]],
             results |->
                [i \in DOMAIN doc.Runs[r].Results |->
                    [ruleId |-> EncodeString(doc.Runs[r].Results[i].RuleID),
                     level |-> EncodeString(doc.Runs[r].Results[i].Level),
                     message |->
                        [text |-> EncodeString(doc.Runs[r].Results[i].Message.Text)]]]]]]

\* The Write call number k succeeds
WriteSucceeds(k) == wfails = 0 \/ k < wfails

\* func RenderSARIF: the encoder hands the document to w in one Write
RenderSARIF ==
    /\ opc = "sarif"
    /\ opc' = "done"
    /\ IF WriteSucceeds(1)
       THEN written' = <<Encode(sarifDocument(sarifResults(violations)))>> /\ rerr' = "nil"
       ELSE written' = <<>> /\ rerr' = "err"
    /\ UNCHANGED <<violations, ograph, wfails>>
    /\ UNCHANGED <<graphVars, mainVars, metricVars, ruleVars, parserVars, cliVars>>

\* Violations that differ in severity, and in the characters of rule and message
SarifViolations ==
    {OutputViolation(Text("r1"), Text(sev), Text("msg"), <<"A", "B">>) :
        sev \in {"error", "warning", "info", "", "Error"}}
    \cup {OutputViolation(rule, Text("error"), Text("msg"), <<>>) :
            rule \in {Text("r2"), <<"r", "<">>}}
    \cup {OutputViolation(Text("r1"), Text("warning"), msg, <<>>) :
            msg \in {<<>>, <<"a", "\"", "b">>, <<"a", "<", "b">>, <<"uFFFD">>, <<"a", "xFF">>}}

WriterFails == {0, 1, 2}

InitSarif ==
    /\ pc = "off" /\ GraphOff /\ apc = "off" /\ MainOff /\ MetricsOff /\ RulesOff
    /\ ParserOff /\ CliOff
    /\ opc = "sarif" /\ violations \in BoundedSeq(SarifViolations, MaxViolations)
    /\ ograph = <<>> /\ wfails \in WriterFails /\ written = <<>> /\ rerr = "nil"

NextSarif == RenderSARIF

SpecSarif == InitSarif /\ [][NextSarif]_vars

\* What a JSON reader makes of an encoded string
DecodeSymbol(t) ==
    IF t = "\\\"" THEN "\""
    ELSE IF t = "\\u003c" THEN "<"
    ELSE IF t = "\\ufffd" THEN "uFFFD"
    ELSE t

DecodeString(enc) == [k \in DOMAIN enc |-> DecodeSymbol(enc[k])]

\* RenderSARIF has returned without error
SarifDone == opc = "done" /\ rerr = "nil" /\ ograph = <<>> /\ Len(written) = 1

\* The results array of the one run of the written document
ResultsWritten == written[1].runs[1].results

\* The document has one run, with one result per violation in input order,
\* and result i has the level of violation i's severity
SarifShape ==
    /\ Len(written[1].runs) = 1
    /\ Len(ResultsWritten) = Len(violations)
    /\ \A i \in 1..Len(violations) :
          LET level == DecodeString(ResultsWritten[i].level)
              sev == violations[i].Severity
          IN /\ level = Text("error") <=> sev = Text("error")
             /\ level = Text("warning") <=> sev = Text("warning")
             /\ level = Text("note") <=> sev \notin {Text("error"), Text("warning")}

\* C22 as stated: RenderSARIF produces one result per violation, in the same
\* order (an empty results array for no violation); result i has the rule of
\* violation i as ruleId, its message as message text, and the level error,
\* warning or note by its severity.
C22_SarifResults ==
    SarifDone =>
        /\ SarifShape
        /\ \A i \in 1..Len(violations) :
              /\ DecodeString(ResultsWritten[i].ruleId) = violations[i].Rule
              /\ DecodeString(ResultsWritten[i].message.text) = violations[i].Message

\* C22 amended: the same, where ruleId and message text are those of the
\* violation whenever the rule and the message are valid UTF-8
C22_SarifResultsValidUTF8 ==
    SarifDone =>
        /\ SarifShape
        /\ \A i \in 1..Len(violations) :
              /\ ValidUTF8(violations[i].Rule)
                    => DecodeString(ResultsWritten[i].ruleId) = violations[i].Rule
              /\ ValidUTF8(violations[i].Message)
                    => DecodeString(ResultsWritten[i].message.text) = violations[i].Message

\* Two violations have been rendered: an info one, and a warning whose
\* message holds a quote; the results are a note and a warning with that message
C22_Witness ==
    /\ SarifDone
    /\ Len(violations) = 2
    /\ violations[1].Severity = Text("info")
    /\ violations[2].Message = <<"a", "\"", "b">>
    /\ ResultsWritten[1].level = Text("note")
    /\ ResultsWritten[2].message.text = <<"a", "\\\"", "b">>

----------------------------------------------------------------------------
(* RenderMermaid *)

\* type Edge struct of package output; Timeout is a string
OutputEdge(source, target, timeout, retries) ==
    [Source |-> source, Target |-> target, Timeout |-> timeout, Retries |-> retries]

Digits == <<"0", "1", "2", "3", "4", "5", "6", "7", "8", "9">>

\* The verb %d: the decimal digits of n, behind a minus sign when n < 0
RECURSIVE Decimal(_)
Decimal(n) ==
    IF n < 0 THEN <<"-">> \o Decimal(0 - n)
    ELSE IF n < 10 THEN <<Digits[n + 1]>>
    ELSE Decimal(n \div 10) \o <<Digits[(n % 10) + 1]>>

\* violationEdges: the pairs of consecutive nodes of the violations' paths
violationEdges(vs) ==
    {<<vs[v].Path[i], vs[v].Path[i + 1]>> : <<v, i>> \in
        UNION {{<<v, i>> : i \in 1..(Len(vs[v].Path) - 1)} : v \in 1..Len(vs)}}

\* fmt.Sprintf("  %s -->|\"%s/%d\"| %s", ...), a line being the sequence of
\* its parts
EdgeLine(e) ==
    <<"  ", e.Source, " -->|\"", e.Timeout, "/">> \o Decimal(e.Retries)
        \o <<"\"| ", e.Target>>

\* fmt.Sprintf("  linkStyle %d stroke:red", idx)
LinkStyleLine(idx) == <<"  linkStyle ">> \o Decimal(idx) \o <<" stroke:red">>

\* Every edge index is red
redIndicesAll(edges, vs) == [k \in 1..Len(edges) |-> k - 1]

\* redIndices: the 0-based indices of the edges whose (source, target) is a
\* violation edge, in the order of the edges
redIndices(edges, vs) ==
    LET One(i) == IF <<edges[i].Source, edges[i].Target>> \in violationEdges(vs)
                  THEN <<i - 1>> ELSE <<>>
    IN Appended([i \in DOMAIN edges |-> One(i)], 1)

\* lines: the header, one line per edge, one per red index
mermaidLines(edges, vs) ==
    <<<<"graph LR">>>> \o [i \in DOMAIN edges |-> EdgeLine(edges[i])]
        \o [k \in DOMAIN redIndices(edges, vs) |-> LinkStyleLine(redIndices(edges, vs)[k])]

NewLine == <<"\n">>

\* The arguments of the Fprint calls: a line break before every line but the
\* first
Pieces(lines) ==
    [k \in 1..(2 * Len(lines) - 1) |-> IF k % 2 = 0 THEN NewLine ELSE lines[(k + 1) \div 2]]

\* func RenderMermaid: it returns the error of the first Fprint that fails
RenderMermaid ==
    /\ opc = "mermaid"
    /\ opc' = "done"
    /\ LET pieces == Pieces(mermaidLines(ograph, violations))
       IN IF wfails = 0 \/ wfails > Len(pieces)
          THEN written' = pieces /\ rerr' = "nil"
          ELSE written' = SubSeq(pieces, 1, wfails - 1) /\ rerr' = "err"
    /\ UNCHANGED <<violations, ograph, wfails>>
    /\ UNCHANGED <<graphVars, mainVars, metricVars, ruleVars, parserVars, cliVars>>

\* Edges between A and B both ways and round A, and edges that differ in
\* their label
MermaidEdges ==
    {OutputEdge(s, t, "1s", 0) : s, t \in RuleNodes}
        \cup {OutputEdge("A", "B", "", 12), OutputEdge("B", "C", "5s", 0 - 1)}

\* Violations that differ in their path
MermaidViolations ==
    {OutputViolation(Text("r1"), Text("error"), Text("msg"), path) :
        path \in {<<>>, <<"A">>, <<"A", "B">>, <<"B", "A">>, <<"A", "B", "C">>, <<"A", "A">>}}

InitMermaid ==
    /\ pc = "off" /\ GraphOff /\ apc = "off" /\ MainOff /\ MetricsOff /\ RulesOff
    /\ ParserOff /\ CliOff
    /\ opc = "mermaid" /\ violations \in BoundedSeq(MermaidViolations, MaxViolations)
    /\ ograph \in BoundedSeq(MermaidEdges, MaxRenderEdges)
    /\ wfails \in WriterFails /\ written = <<>> /\ rerr = "nil"

NextMermaid == RenderMermaid

SpecMermaid == InitMermaid /\ [][NextMermaid]_vars

\* RenderMermaid has returned without error
MermaidDone == opc = "done" /\ rerr = "nil" /\ written /= <<>> /\ written[1] = <<"graph LR">>

\* The lines written: what stands between the line breaks
LinesWritten == [k \in 1..((Len(written) + 1) \div 2) |-> written[2 * k - 1]]

IsLinkStyle(line) == line[1] = "  linkStyle "

\* (source, target) of the edge at 0-based position i occurs as two
\* consecutive nodes in the path of a violation
OnViolationPath(i) ==
    \E v \in 1..Len(violations) : \E k \in 1..(Len(violations[v].Path) - 1) :
        /\ violations[v].Path[k] = ograph[i + 1].Source
        /\ violations[v].Path[k + 1] = ograph[i + 1].Target

\* C23: RenderMermaid emits the line 'linkStyle i stroke:red' exactly when
\* the (source, target) of the edge at 0-based input position i occurs as two
\* consecutive nodes in the path of a violation, and no other linkStyle line
\* (none without violations); the linkStyle lines follow all edge lines, in
\* increasing order of i.
C23_LinkStyle ==
    MermaidDone =>
        LET lines == LinesWritten
            n == Len(ograph)
            red == {i \in 0..(n - 1) : OnViolationPath(i)}
        IN /\ \A i \in 0..(n - 1) :
                 (i \in red) <=> (\E k \in DOMAIN lines : lines[k] = LinkStyleLine(i))
           /\ Len(lines) = 1 + n + Cardinality(red)
           /\ \A k \in 1..(1 + n) : ~IsLinkStyle(lines[k])
           /\ \A k \in (2 + n)..Len(lines) : IsLinkStyle(lines[k])
           /\ \A j, k \in (2 + n)..Len(lines) : \A a, b \in red :
                 (j < k /\ lines[j] = LinkStyleLine(a) /\ lines[k] = LinkStyleLine(b)) => a < b
           /\ violations = <<>> => Len(lines) = 1 + n

\* A->B, B->A and a violation with path A, B have been rendered: edge 0 is
\* red and edge 1 is not
C23_Witness ==
    /\ MermaidDone
    /\ Len(ograph) = 2 /\ Len(violations) = 1
    /\ ograph[1].Source = "A" /\ ograph[1].Target = "B"
    /\ ograph[2].Source = "B" /\ ograph[2].Target = "A"
    /\ violations[1].Path = <<"A", "B">>
    /\ LinesWritten[4] = LinkStyleLine(0)
    /\ Len(LinesWritten) = 4

----------------------------------------------------------------------------
(* package parser: ParseTopology *)

MaxDeps == 2    \* dependencies of a service in the document

\* A YAML mapping is a record of fields, each <<>> when the key is absent
\* and <<value>> when it is present; yaml.Unmarshal leaves the zero value in
\* the struct field of an absent key
FieldOr(field, zero) == IF field = <<>> THEN zero ELSE field[1]

\* A duration string is the sequence of its parts: an optional sign, a
\* number, a unit; <<>> is the empty string
Units == {"ms", "s"}

UnitFactor(unit) == IF unit = "s" THEN 1000 ELSE 1

\* The number a digit stands for
DigitValue(d) == CHOOSE n \in 0..9 : Digits[n + 1] = d

IsDigit(d) == \E n \in 0..9 : Digits[n + 1] = d

\* time.ParseDuration without the sign: "0" needs no unit, any other number
\* does; the value is in milliseconds
ParseUnsigned(str) ==
    IF str = <<"0">> THEN [ok |-> TRUE, d |-> 0]
    ELSE IF Len(str) = 2 /\ IsDigit(str[1]) /\ str[2] \in Units
         THEN [ok |-> TRUE, d |-> DigitValue(str[1]) * UnitFactor(str[2])]
         ELSE [ok |-> FALSE, d |-> 0]

\* time.ParseDuration: [+-]?number unit
ParseDuration(str) ==
    IF str /= <<>> /\ str[1] \in {"-", "+"}
    THEN LET u == ParseUnsigned(Tail(str))
         IN [ok |-> u.ok, d |-> IF str[1] = "-" THEN 0 - u.d ELSE u.d]
    ELSE ParseUnsigned(str)

\* yaml.Unmarshal into RawDependency
RawDependency(doc) ==
    [Target |-> FieldOr(doc.target, ""),
     Timeout |-> FieldOr(doc.timeout, <<>>),
     MaxRetries |-> FieldOr(doc.max_retries, 0),
     BackoffBase |-> FieldOr(doc.backoff_base, <<>>),
     BackoffJitterEnabled |-> FieldOr(doc.backoff_jitter_enabled, FALSE),
     CircuitBreakerEnabled |-> FieldOr(doc.circuit_breaker_enabled, FALSE)]

\* yaml.Unmarshal into RawEndpoint
RawEndpoint(doc) ==
    [Method |-> FieldOr(doc.method, ""), Path |-> FieldOr(doc.path, ""),
     Idempotent |-> FieldOr(doc.idempotent, FALSE)]

\* yaml.Unmarshal into RawService
RawService(doc) ==
    [Name |-> FieldOr(doc.name, ""),
     Endpoints |-> [j \in DOMAIN FieldOr(doc.endpoints, <<>>) |->
                        RawEndpoint(FieldOr(doc.endpoints, <<>>)[j])],
     Dependencies |-> [j \in DOMAIN FieldOr(doc.dependencies, <<>>) |->
                        RawDependency(FieldOr(doc.dependencies, <<>>)[j])]]

\* yaml.Unmarshal into RawTopology
RawTopology(doc) ==
    [Services |-> [i \in DOMAIN FieldOr(doc.services, <<>>) |->
                        RawService(FieldOr(doc.services, <<>>)[i])]]

\* The first element of errs that is an error, <<>> when none is
FirstError(errs) ==
    IF \E k \in DOMAIN errs : errs[k] /= <<>>
    THEN errs[CHOOSE k \in DOMAIN errs :
                 errs[k] /= <<>> /\ \A h \in 1..(k - 1) : errs[h] = <<>>]
    ELSE <<>>

\* The body of the loop over svc.Endpoints
endpointError(ep, j) ==
    IF ep.Method = "" THEN <<"missing method", j>>
    ELSE IF ep.Path = "" THEN <<"missing path", j>>
    ELSE <<>>

\* The body of the loop over svc.Dependencies
dependencyError(dep, j) ==
    IF dep.Target = "" THEN <<"missing target", j>>
    ELSE IF dep.Timeout = <<>> THEN <<"missing timeout", j>>
    ELSE IF ~ParseDuration(dep.Timeout).ok THEN <<"invalid timeout", j>>
    ELSE IF ParseDuration(dep.Timeout).d < 0 THEN <<"negative timeout", j>>
    ELSE IF dep.MaxRetries < 0 THEN <<"negative max_retries", j>>
    ELSE IF dep.BackoffBase /= <<>> /\ ~ParseDuration(dep.BackoffBase).ok
         THEN <<"invalid backoff_base", j>>
    ELSE <<>>

\* The body of the loop over topo.Services
serviceError(svc, i) ==
    IF svc.Name = "" THEN <<"missing name", i>>
    ELSE FirstError(
            [j \in DOMAIN svc.Endpoints |-> endpointError(svc.Endpoints[j], j)]
            \o [j \in DOMAIN svc.Dependencies |-> dependencyError(svc.Dependencies[j], j)])

\* func validateTopology
validateTopology(t) ==
    FirstError([i \in DOMAIN t.Services |-> serviceError(t.Services[i], i)])

\* func ParseTopology; the reader yields an error, no byte, bytes that are
\* not YAML for a RawTopology, or a document
ParseTopology ==
    /\ ppc = "in"
    /\ ppc' = "done"
    /\ IF data.kind = "read error" THEN topo' = <<>> /\ perr' = <<"reading input">>
       ELSE IF data.kind = "empty" THEN topo' = <<RawTopology([services |-> <<>>])>> /\ perr' = <<>>
       ELSE IF data.kind = "not yaml" THEN topo' = <<>> /\ perr' = <<"parsing YAML">>
       ELSE LET t == RawTopology(data.doc)
            IN IF validateTopology(t) /= <<>>
               THEN topo' = <<>> /\ perr' = validateTopology(t)
               ELSE topo' = <<t>> /\ perr' = <<>>
    /\ UNCHANGED data
    /\ UNCHANGED <<graphVars, mainVars, metricVars, ruleVars, outputVars, cliVars>>

\* A dependency mapping of the document
DepDoc(target, timeout, retries, backoff) ==
    [target |-> target, timeout |-> timeout, max_retries |-> retries,
     backoff_base |-> backoff, backoff_jitter_enabled |-> <<>>,
     circuit_breaker_enabled |-> <<TRUE>>]

\* Dependencies that differ from a valid one in the target, in the timeout
\* (absent, empty, 0, no unit, not a duration, negative), in max_retries, or
\* in backoff_base
DepDocs ==
    {DepDoc(target, <<<<"3", "s">>>>, <<0>>, <<>>) : target \in {<<>>, <<"">>, <<"B">>}}
    \cup {DepDoc(<<"B">>, timeout, <<0>>, <<>>) :
            timeout \in {<<>>, <<<<>>>>, <<<<"0">>>>, <<<<"5">>>>, <<<<"abc">>>>,
                         <<<<"-", "1", "s">>>>}}
    \cup {DepDoc(<<"B">>, <<<<"3", "s">>>>, retries, <<>>) : retries \in {<<>>, <<3>>, <<0 - 1>>}}
    \cup {DepDoc(<<"B">>, <<<<"3", "s">>>>, <<0>>, backoff) :
            backoff \in {<<<<>>>>, <<<<"1", "ms">>>>, <<<<"abc">>>>, <<<<"-", "1", "s">>>>}}

ServiceDoc(name, endpoints, dependencies) ==
    [name |-> name, endpoints |-> endpoints, dependencies |-> dependencies]

EndpointDocs ==
    {[method |-> m, path |-> p, idempotent |-> <<>>] :
        m \in {<<>>, <<"GET">>}, p \in {<<>>, <<"/x">>}}

\* Services that differ in the name, in one endpoint, or in the dependencies
ServiceDocs ==
    {ServiceDoc(name, <<>>, <<>>) : name \in {<<>>, <<"">>, <<"A">>}}
    \cup {ServiceDoc(<<"A">>, <<<<ep>>>>, <<>>) : ep \in EndpointDocs}
    \cup {ServiceDoc(<<"A">>, <<>>, <<deps>>) : deps \in BoundedSeq(DepDocs, MaxDeps)}

\* Documents of one service, and of a service behind a nameless one
TopologyDocs ==
    {[services |-> <<>>], [services |-> <<<<>>>>]}
    \cup {[services |-> <<<<s>>>>] : s \in ServiceDocs}
    \cup {[services |-> <<<<ServiceDoc(<<>>, <<>>, <<>>), ServiceDoc(<<"A">>, <<>>, <<<<d>>>>)>>>>] :
            d \in DepDocs}

ReaderData ==
    {[kind |-> "read error"], [kind |-> "empty"], [kind |-> "not yaml"]}
    \cup {[kind |-> "yaml", doc |-> d] : d \in TopologyDocs}

InitParser ==
    /\ pc = "off" /\ GraphOff /\ apc = "off" /\ MainOff /\ MetricsOff /\ RulesOff
    /\ OutputOff /\ CliOff
    /\ ppc = "in" /\ data \in ReaderData /\ topo = <<>> /\ perr = <<>>

NextParser == ParseTopology

SpecParser == InitParser /\ [][NextParser]_vars

\* ParseTopology has returned for a YAML document
Parsed == ppc = "done" /\ data.kind = "yaml"

\* The dependencies of the document, after yaml.Unmarshal
DependenciesOf(t) ==
    UNION {Range(t.Services[i].Dependencies) : i \in DOMAIN t.Services}

\* The string is a duration below zero
NegativeDuration(str) == ParseDuration(str).ok /\ ParseDuration(str).d < 0

\* A service has no name, a dependency has no target or no timeout, a
\* max_retries is negative, or a timeout or backoff_base is negative
Rejectable(t) ==
    \/ \E i \in DOMAIN t.Services : t.Services[i].Name = ""
    \/ \E dep \in DependenciesOf(t) :
          \/ dep.Target = ""
          \/ dep.Timeout = <<>>
          \/ dep.MaxRetries < 0
          \/ NegativeDuration(dep.Timeout)
          \/ NegativeDuration(dep.BackoffBase)

RejectableButBackoff(t) ==
    \/ \E i \in DOMAIN t.Services : t.Services[i].Name = ""
    \/ \E dep \in DependenciesOf(t) :
          \/ dep.Target = ""
          \/ dep.Timeout = <<>>
          \/ dep.MaxRetries < 0
          \/ NegativeDuration(dep.Timeout)

C24_RejectedButBackoff ==
    Parsed => (RejectableButBackoff(RawTopology(data.doc)) => (perr /= <<>> /\ topo = <<>>))

\* A document whose one dependency has backoff_base "-1s" has been parsed:
\* a topology is returned without error
C24_NegativeBackoffAccepted ==
    /\ Parsed /\ perr = <<>> /\ topo /= <<>>
    /\ \E dep \in DependenciesOf(topo[1]) : dep.BackoffBase = <<"-", "1", "s">>

----------------------------------------------------------------------------
(* func main of package main: from the argument to the exit code *)

\* yaml.Unmarshal into an element of Config.Services[svc].Calls, and the
\* CallEdge main builds from it: the error of time.ParseDuration is dropped
\* and t is 0 then; a missing method is GET
CallEdgeOf(svc, doc) ==
    [Source |-> svc,
     Target |-> FieldOr(doc.target, ""),
     Timeout |-> ParseDuration(FieldOr(doc.timeout, <<>>)).d,
     Retries |-> FieldOr(doc.retries, 0),
     CircuitBreaker |-> FieldOr(doc.circuit_breaker, FALSE),
     Method |-> IF FieldOr(doc.method, "") = "" THEN "GET" ELSE FieldOr(doc.method, ""),
     BackoffJitter |-> FieldOr(doc.backoff_jitter, FALSE)]

\* The edges appended for the services in the order keys, each service's
\* calls in document order
RECURSIVE EdgesOfConfig(_, _)
EdgesOfConfig(cfg, keys) ==
    IF keys = <<>> THEN <<>>
    ELSE [k \in DOMAIN cfg[keys[1]] |-> CallEdgeOf(keys[1], cfg[keys[1]][k])]
            \o EdgesOfConfig(cfg, Tail(keys))

\* The orders in which range may produce the keys of the map cfg.Services
KeyOrders(cfg) ==
    {order \in [1..Cardinality(DOMAIN cfg) -> DOMAIN cfg] :
        \A i, j \in DOMAIN order : i /= j => order[i] /= order[j]}

\* main up to g := NewGraph(edges): exit code 2 without an argument, when
\* the file cannot be read, and when it is not YAML for a Config
mainStart ==
    /\ cpc = "start"
    /\ IF argv.kind \in {"no argument", "no file", "not yaml"}
       THEN /\ cpc' = "exited" /\ exitCode' = <<2>>
            /\ UNCHANGED <<Edges, Adj, apc>>
       ELSE /\ cpc' = "analyze" /\ exitCode' = <<>>
            /\ \E order \in KeyOrders(argv.services) :
                  /\ Edges' = EdgesOfConfig(argv.services, order)
                  /\ Adj' = BuildAdj(EdgesOfConfig(argv.services, order), 1, EmptyMap)
            /\ apc' = "ready"
    /\ UNCHANGED <<f, todo, gstack, rootsUsed, results, inputs, argv>>
    /\ UNCHANGED <<graphVars, metricVars, ruleVars, outputVars, parserVars>>

\* findings := g.Analyze() has returned: main returns (exit code 0) when
\* there is no finding, and calls os.Exit(1) behind the report otherwise
mainExit ==
    /\ cpc = "analyze" /\ apc = "ready" /\ results /= <<>>
    /\ cpc' = "exited"
    /\ exitCode' = IF Len(results[1]) = 0 THEN <<0>> ELSE <<1>>
    /\ UNCHANGED <<argv, mainVars>>
    /\ UNCHANGED <<graphVars, metricVars, ruleVars, outputVars, parserVars>>

\* A call mapping of the document
CallDoc(target, timeout, retries, method) ==
    [target |-> target, timeout |-> timeout, retries |-> retries,
     circuit_breaker |-> <<TRUE>>, method |-> method, backoff_jitter |-> <<TRUE>>]

\* Calls that differ from a clean one in the target, in the timeout (absent,
\* not a duration, negative), in the retries, or in the method
CallDocs ==
    {CallDoc(target, <<<<"3", "s">>>>, <<0>>, <<"GET">>) : target \in {<<>>, <<"">>, <<"B">>}}
    \cup {CallDoc(<<"B">>, timeout, <<0>>, <<"GET">>) :
            timeout \in {<<>>, <<<<"abc">>>>, <<<<"-", "1", "s">>>>}}
    \cup {CallDoc(<<"B">>, <<<<"3", "s">>>>, retries, <<"GET">>) : retries \in {<<3>>, <<0 - 1>>}}
    \cup {CallDoc(<<"B">>, <<<<"3", "s">>>>, <<3>>, method) : method \in {<<>>, <<"POST">>}}

\* The services of a Config: A with up to MaxCallEdges calls, and A and B
\* with a call each, that of B to C or round B
Configs ==
    {[svc \in {"A"} |-> cs] : cs \in BoundedSeq(CallDocs, MaxCallEdges)}
    \cup {[svc \in {"A", "B"} |-> IF svc = "A" THEN <<c>> ELSE <<d>>] :
            c \in CallDocs,
            d \in {CallDoc(<<"C">>, <<<<"5", "s">>>>, <<0>>, <<"GET">>),
                   CallDoc(<<"C">>, <<<<"3", "s">>>>, <<0 - 1>>, <<"GET">>),
                   CallDoc(<<"B">>, <<<<"3", "s">>>>, <<0>>, <<"GET">>)}}

Arguments ==
    {[kind |-> "no argument"], [kind |-> "no file"], [kind |-> "not yaml"]}
    \cup {[kind |-> "yaml", services |-> cfg] : cfg \in Configs}

InitCli ==
    /\ pc = "off" /\ GraphOff /\ apc = "off" /\ MainOff /\ MetricsOff /\ RulesOff
    /\ OutputOff /\ ParserOff
    /\ cpc = "start" /\ argv \in Arguments /\ exitCode = <<>>

NextCli ==
    \/ mainStart
    \/ cpc = "analyze" /\ results = <<>> /\ Analyze
    \/ AnalyzeStep
    \/ mainExit

SpecCli == InitCli /\ [][NextCli]_vars

\* The calls of the document
CallsOfConfig(cfg) == UNION {Range(cfg[svc]) : svc \in DOMAIN cfg}

\* A call fails validation: its timeout is not a duration or is negative,
\* its retries are negative, or its target is empty
InvalidCall(doc) ==
    \/ ~ParseDuration(FieldOr(doc.timeout, <<>>)).ok
    \/ ParseDuration(FieldOr(doc.timeout, <<>>)).d < 0
    \/ FieldOr(doc.retries, 0) < 0
    \/ FieldOr(doc.target, "") = ""

\* The argument or the file is missing, the file is not YAML, or a call
\* fails validation
InputError ==
    \/ argv.kind \in {"no argument", "no file", "not yaml"}
    \/ argv.kind = "yaml" /\ \E doc \in CallsOfConfig(argv.services) : InvalidCall(doc)

C25_ExitCodesOfCode ==
    cpc = "exited" =>
        IF argv.kind \in {"no argument", "no file", "not yaml"} THEN exitCode = <<2>>
        ELSE /\ Len(results) = 1
             /\ exitCode = IF results[1] = <<>> THEN <<0>> ELSE <<1>>

\* The process has exited with 0 for a document whose one call has the
\* timeout "abc"
C25_UnparsableTimeoutAccepted ==
    /\ cpc = "exited" /\ exitCode = <<0>>
    /\ argv.kind = "yaml" /\ DOMAIN argv.services = {"A"} /\ Len(argv.services["A"]) = 1
    /\ argv.services["A"][1].timeout = <<<<"abc">>>>

----------------------------------------------------------------------------
(* The visited set and the order of AllPathsFrom *)

\* The nodes whose mark is true
Marked == {n \in Names : IsVisited(n)}

\* C26: stack discipline of the visited set. At every step of the DFS inside
\* AllPathsFrom the nodes marked visited are exactly the nodes on the current
\* exploration stack, which are the root and the targets of the edges of the
\* current path; a node is unmarked when the traversal returns from it, and
\* when AllPathsFrom has returned no node is marked.
C26_StackDiscipline ==
    /\ pc = "dfs" =>
          /\ Marked = StackNodes
          /\ stack /= <<>> =>
                StackNodes = {root} \cup {Top.path[k].To : k \in 1..Len(Top.path)}
    /\ pc = "done" => Marked = {}

\* The traversal is three nodes deep behind a node it has returned from:
\* that node has a mark, which is false
C26_Witness ==
    /\ pc = "dfs" /\ Len(stack) = 3
    /\ \E n \in DOMAIN visited : ~visited[n] /\ n \notin StackNodes

\* adj keeps what it holds and grows at the end of a list only
AppendOnly ==
    \A n \in DOMAIN adj :
        /\ n \in DOMAIN adj'
        /\ Len(adj'[n]) >= Len(adj[n])
        /\ SubSeq(adj'[n], 1, Len(adj[n])) = adj[n]

\* An activation of dfs starts at the first out-edge and goes to the next
InOrder ==
    \A k \in DOMAIN stack' :
        IF k \in DOMAIN stack
        THEN /\ stack'[k].node = stack[k].node
             /\ stack'[k].i \in {stack[k].i, stack[k].i + 1}
        ELSE stack'[k].i = 1

\* The paths p and q, both from node, can be walked over out-edges that
\* first differ at some position, where that of p stands earlier in the
\* out-edge list (equal parallel edges are different edges)
RECURSIVE Before(_, _, _)
Before(p, q, node) ==
    /\ p /= <<>> /\ q /= <<>>
    /\ \E a, b \in DOMAIN OutEdges(node) :
          /\ OutEdges(node)[a] = p[1] /\ OutEdges(node)[b] = q[1]
          /\ a < b \/ (a = b /\ Before(Tail(p), Tail(q), p[1].To))

\* The recorded paths are in the order of the out-edge lists
PreOrder == \A i, j \in DOMAIN result : i < j => Before(result[i], result[j], root)

\* C27: insertion order. The out-edge list of each node holds its edges in
\* the order in which they were added, AllPathsFrom visits the out-edges of a
\* node in that order, and the returned paths are in DFS pre-order: of two
\* paths that first differ at some position, the one whose edge at that
\* position was added earlier comes first.
C27_InsertionOrder == []PreOrder /\ [][AppendOnly /\ InOrder]_vars

\* A->C was added before A->B, and AllPathsFrom(A) has returned the path
\* over A->C before the path over A->B
C27_Witness ==
    /\ pc = "done" /\ root = "A" /\ Len(result) = 2
    /\ Len(OutEdges("A")) = 2
    /\ OutEdges("A")[1].To = "C" /\ OutEdges("A")[2].To = "B"
    /\ result[1][1].To = "C" /\ result[2][1].To = "B"

----------------------------------------------------------------------------
(* Graph.Analyze on a cycle that a root reaches *)

\* A root A, a loop round B, and a way out to C, with and without retries
CycleCallEdges ==
    {[Source |-> p[1], Target |-> p[2], Timeout |-> 1, Retries |-> r, CircuitBreaker |-> TRUE,
      Method |-> "GET", BackoffJitter |-> TRUE] :
        p \in {<<"A", "B">>, <<"B", "B">>, <<"B", "C">>}, r \in {0, 3}}

NextCycle ==
    \/ apc = "new" /\ \E edges \in BoundedSeq(CycleCallEdges, MaxCallEdges) : NewGraph(edges)
    \/ results = <<>> /\ Analyze
    \/ AnalyzeStep

SpecCycle == InitAnalyzer /\ [][NextCycle]_vars

\* The chains of n edges, as sequences of positions in Edges, that start at
\* a source that is never a target
RECURSIVE WalksOf(_)
WalksOf(n) ==
    IF n = 1 THEN {<<i>> : i \in {k \in DOMAIN Edges : Edges[k].Source \in Sources \ Targets}}
    ELSE UNION {{Append(w, i) : i \in {k \in DOMAIN Edges :
                                        Edges[k].Source = Edges[w[n - 1]].Target}} :
                w \in WalksOf(n - 1)}

WalksUpTo(n) == UNION {WalksOf(k) : k \in 1..n}

\* The nodes along a chain, and its product of (1 + Retries)
WalkNodes(w) == <<Edges[w[1]].Source>> \o [k \in DOMAIN w |-> Edges[w[k]].Target]

RECURSIVE WalkProduct(_)
WalkProduct(w) ==
    IF w = <<>> THEN 1
    ELSE WalkProduct(SubSeq(w, 1, Len(w) - 1)) * (1 + Edges[w[Len(w)]].Retries)

\* The finding for the prefix w
FindingOfWalk(w) == Finding("retry-amplification", "error", <<WalkProduct(w)>>, WalkNodes(w))

\* The findings of out are, one for one, those of the prefixes of up to n
\* edges whose product exceeds 10
OnePerPrefix(out, n) ==
    LET over == {w \in WalksUpTo(n) : WalkProduct(w) > AmpThreshold}
    IN /\ \A w \in over :
             Count(out, FindingOfWalk(w))
                = Cardinality({v \in over : FindingOfWalk(v) = FindingOfWalk(w)})
       /\ \A k \in DOMAIN out :
             out[k].Rule = "retry-amplification"
                => \E w \in over : out[k] = FindingOfWalk(w)

\* C28 as stated: Graph.Analyze emits one retry-amplification finding of
\* severity error for every path prefix that starts at a root and whose
\* product of (1 + Retries) exceeds 10, for the prefixes of up to 10 edges,
\* and explores no longer prefix.
C28_PrefixesOfTenEdges ==
    (apc = "ready" /\ results /= <<>>) => OnePerPrefix(results[1], MaxPathNodes)

\* C28 amended: the same for the prefixes of up to 10 nodes, which are 9 edges
C28_PrefixesOfTenNodes ==
    (apc = "ready" /\ results /= <<>>) => OnePerPrefix(results[1], MaxPathNodes - 1)

\* A->B and B->B, each with 3 retries, have been analysed: there are findings
\* for the prefixes of 2 to 9 edges, the longest with 10 nodes
C28_Witness ==
    /\ apc = "ready" /\ Len(results) = 1
    /\ Len(Edges) = 2 /\ Edges[1].Target = "B" /\ Edges[2].Source = "B" /\ Edges[2].Target = "B"
    /\ Len(results[1]) = MaxPathNodes - 2
    /\ \E k \in DOMAIN results[1] : Len(results[1][k].Path) = MaxPathNodes

\* C29: in every retry-amplification finding of Graph.Analyze the Path has
\* no repeated node, except possibly its last node, which then appears
\* exactly twice: the traversal stops at the edge that closes a cycle.
C29_NoRepeatedNode ==
    \A r \in DOMAIN results : \A k \in DOMAIN results[r] :
        results[r][k].Rule = "retry-amplification" =>
            LET path == results[r][k].Path
            IN \A i, j \in DOMAIN path :
                  (i < j /\ path[i] = path[j])
                      => (j = Len(path) /\ Occurrences(path, path[j]) = 2)

\* A finding of the analysis of A->B, B->B (3 retries each) has the path
\* A, B, B, B
C29_RoundTheCycle ==
    /\ apc = "ready" /\ Len(results) = 1
    /\ \E k \in DOMAIN results[1] : results[1][k].Path = <<"A", "B", "B", "B">>

----------------------------------------------------------------------------
(* Read-only analysis: AllPathsFrom and Check called again *)

\* Every rule of package rules, the path rules with their defaults and set
AllRules ==
    EdgeLocalRules
        \cup {RetryAmplificationRule(0, 0), RetryAmplificationRule(3, 2),
              EndToEndTimeoutExceedRule(0), EndToEndTimeoutExceedRule(1)}

\* A graph is built and AllPathsFrom is called on it, again and again; a
\* mock graph is built and one rule is run on it twice
NextReadOnly ==
    \/ NextCallGraph
    \/ rpc = "new" /\ \E edges \in BoundedSeq(LocalRuleEdges, MaxRuleEdges) : newMockGraph(edges)
    \/ \E r \in AllRules :
          /\ calls = <<>> \/ (Len(calls) = 1 /\ calls[1].rule = r)
          /\ Check(r)

SpecReadOnly == (InitCallGraph \/ InitRules) /\ [][NextReadOnly]_vars

\* A step of AllPathsFrom leaves adj as it is, a Check the edges and the
\* adjacency lists of the graph
GraphUnchanged ==
    /\ (pc = "dfs" \/ pc' = "dfs") => adj' = adj
    /\ calls' /= calls => (medges' = medges /\ madj' = madj)

\* A path once recorded stays as it is while the traversal goes on, and the
\* result of the call before stays as it is during the next call
PathsKept ==
    /\ pc = "dfs" =>
          \A k \in DOMAIN result : k \in DOMAIN result' /\ result'[k] = result[k]
    /\ (pc = "dfs" /\ prev /= <<>>) => prev' = prev

\* A call repeated on the same graph has returned what the call before returned
RepeatEqual ==
    /\ (pc = "done" /\ prev /= <<>>) => result = prev[1]
    /\ \A c, d \in DOMAIN calls :
          (calls[c].rule = calls[d].rule /\ calls[c].edges = calls[d].edges)
              => calls[c].out = calls[d].out

C30_WitnessCheck ==
    /\ Len(calls) = 2 /\ Len(medges) = 2
    /\ calls[1].rule.Type = "EndToEndTimeoutExceedRule"
    /\ calls[1].out /= <<>> /\ calls[2].out = calls[1].out

====
